---- MODULE Spec2Model ----
\* Verification model of the Orin map-point index (index/mappointindex.cpp,
\* util/mappoint.cpp, util/mappoint.h) and of the governance manager
\* (governance/governance.cpp).
\*
\* The persistent index is a key/value store whose keys are ordered by the bytes
\* of their serialization; the model keeps the five keyspaces apart and orders a
\* cursor by the serialized bytes of each key.
EXTENDS Integers, Sequences, FiniteSets, TLC

VARIABLES
    tip,            \* height of the block the index is synced to
    chain,          \* blocks written above StartHeight; chain[i] has height StartHeight + i
    db,             \* the index store: [p, h, o, t, y], one field per keyspace
    halted,         \* a write_block / rewind returned false: indexing stops
    rewinds,        \* number of rewinds done
    last,           \* the last call: its kind, arguments, result, the store before it
                    \* and, for a repeated call, the store before the first call
    llabs_min_neg,  \* this build's outcome of std::llabs(INT64_MIN) (undefined behaviour)
    calc,           \* a coordinate pair on its way through encoding, payload and parsing
    gov,            \* the governance manager: one field per member
    now,            \* the clock, in minutes
    mn_sync,        \* how far the masternode sync got: "initial", "blockchain", "synced"
    tip_mn_list,    \* collateral outpoints of the masternode list at the chain tip
    threads,        \* message handler threads inside AcceptMessage: position, hash, iterator
    cs,             \* holder of the governance mutex cs (0: free)
    tally,          \* per hash: entries inserted into the request list, true results of
                    \* ConfirmInventoryRequest and of AcceptMessage
    rate,           \* mapLastMasternodeObject and the triggers the rate check admitted
    sb,             \* mapTrigger with the funding votes, and the last GetBestSuperblock call
    glast,          \* the last GOVOBJ / GOVVOTE handled: the message, the manager before
                    \* and after, the returned MessageProcessingResult
    relay,          \* the relay job of Schedule: its position, the holder of cs_relay,
                    \* every inventory enqueued so far and every one handed to the
                    \* peer manager
    locks,          \* per thread: the manager operation it runs, its position in the
                    \* operation's lock and unlock steps, the mutexes it holds in the
                    \* order it took them
    props,          \* objects with their type and funding votes, the masternodes of the
                    \* tip list that never vote, the last GetApprovedProposals result
    asked           \* RequestGovernanceObjectVotes: its static mapAskedRecently and
                    \* every vote request sent, with the time it was sent at

indexVars == <<tip, chain, db, halted, rewinds, last, llabs_min_neg>>
coordVars == <<calc>>
govVars == <<gov, now, mn_sync, tip_mn_list>>
handlerVars == <<threads, cs, tally>>
rateVars == <<rate, sb>>
msgVars == <<glast>>
planeVars == <<relay, locks, props, asked>>
nonIndexVars == <<coordVars, govVars, handlerVars, rateVars, msgVars, planeVars>>
nonCoordVars == <<indexVars, govVars, handlerVars, rateVars, msgVars, planeVars>>
nonGovVars == <<indexVars, coordVars, handlerVars, rateVars, msgVars, planeVars>>
nonAcceptVars == <<indexVars, coordVars, rateVars, msgVars, planeVars>>
nonRateVars == <<indexVars, coordVars, govVars, handlerVars, msgVars, planeVars>>
nonMsgVars == <<indexVars, coordVars, handlerVars, rateVars, planeVars>>
nonPlaneVars == <<indexVars, coordVars, handlerVars, rateVars, msgVars>>
vars == <<indexVars, coordVars, govVars, handlerVars, rateVars, msgVars, planeVars>>

(***************************************************************************)
(* Bounds of the model.                                                    *)
(***************************************************************************)
\* Height of the (empty) index at the start: blocks 0..StartHeight carried no payload.
StartHeight == 253
\* Number of blocks written above StartHeight.
MaxBlocks == 3
\* Transactions of one block besides its coinbase.
MaxBlockTxs == 2
\* Reorganizations of the chain.
MaxRewinds == 1
\* Clock value, in minutes, when the governance manager is constructed.
StartTime == 1000

(***************************************************************************)
(* Characters, decimal and hexadecimal digits.                             *)
(***************************************************************************)
DecChars == <<"0", "1", "2", "3", "4", "5", "6", "7", "8", "9">>
HexChars == <<"0", "1", "2", "3", "4", "5", "6", "7", "8", "9", "a", "b", "c", "d", "e", "f">>
HexCharsUpper == <<"0", "1", "2", "3", "4", "5", "6", "7", "8", "9", "A", "B", "C", "D", "E", "F">>

IsDecChar(c) == \E i \in 1..10 : DecChars[i] = c
DecVal(c) == (CHOOSE i \in 1..10 : DecChars[i] = c) - 1
IsHexChar(c) == \E i \in 1..16 : HexChars[i] = c \/ HexCharsUpper[i] = c
HexVal(c) == (CHOOSE i \in 1..16 : HexChars[i] = c \/ HexCharsUpper[i] = c) - 1

\* MAP_POINT_PREFIX and MAP_POINT_TRANSFER_PREFIX, as character sequences.
MAP_POINT_PREFIX == <<"O", "R", "I", "N", "M", "A", "P", "1">>
MAP_POINT_TRANSFER_PREFIX == <<"O", "R", "I", "N", "M", "A", "P", "X">>
\* sizeof of the prefix arrays: eight characters and the terminating NUL.
SizeofPrefix == 9

\* SplitString(str, sep): the pieces between separators, empty pieces kept.
SplitString(str, sep) ==
    LET seps == {i \in 1..Len(str) : str[i] = sep}
        nth(k) == CHOOSE i \in seps : Cardinality({j \in seps : j < i}) = k - 1
        from(k) == IF k = 1 THEN 1 ELSE nth(k - 1) + 1
        to(k) == IF k = Cardinality(seps) + 1 THEN Len(str) ELSE nth(k) - 1
    IN  [k \in 1..(Cardinality(seps) + 1) |-> SubSeq(str, from(k), to(k))]

(***************************************************************************)
(* int64_t values are kept as sign and decimal magnitude, so that the      *)
(* whole 64-bit range is represented exactly.                              *)
(***************************************************************************)
RECURSIVE StripZeros(_)
StripZeros(ds) ==
    IF Len(ds) > 1 /\ Head(ds) = 0 THEN StripZeros(Tail(ds)) ELSE ds

RECURSIVE DigitsLess(_, _)
DigitsLess(a, b) ==
    IF a = <<>> THEN FALSE
    ELSE IF Head(a) # Head(b) THEN Head(a) < Head(b)
    ELSE DigitsLess(Tail(a), Tail(b))

\* a < b for magnitudes without leading zeros.
MagLess(a, b) ==
    \/ Len(a) < Len(b)
    \/ Len(a) = Len(b) /\ DigitsLess(a, b)

RECURSIVE NatDigits(_)
NatDigits(n) == IF n < 10 THEN <<n>> ELSE Append(NatDigits(n \div 10), n % 10)

RECURSIVE DigitsNat(_)
DigitsNat(ds) ==
    IF ds = <<>> THEN 0 ELSE 10 * DigitsNat(SubSeq(ds, 1, Len(ds) - 1)) + ds[Len(ds)]

I64(n) == [neg |-> n < 0, mag |-> NatDigits(IF n < 0 THEN -n ELSE n)]
I64Zero == [neg |-> FALSE, mag |-> <<0>>]

\* |INT64_MAX| and |INT64_MIN| as decimal magnitudes.
Int64MaxMag == <<9, 2, 2, 3, 3, 7, 2, 0, 3, 6, 8, 5, 4, 7, 7, 5, 8, 0, 7>>
Int64MinMag == <<9, 2, 2, 3, 3, 7, 2, 0, 3, 6, 8, 5, 4, 7, 7, 5, 8, 0, 8>>
Int64Min == [neg |-> TRUE, mag |-> Int64MinMag]

\* ParseInt64(str, out): an optional sign and decimal digits, nothing else, in the
\* range of int64_t.
ParseInt64(str) ==
    LET signed == str # <<>> /\ (str[1] = "-" \/ str[1] = "+")
        body == IF signed THEN Tail(str) ELSE str
        wellformed == body # <<>> /\ \A i \in 1..Len(body) : IsDecChar(body[i])
        mag == StripZeros([i \in 1..Len(body) |-> DecVal(body[i])])
        neg == signed /\ str[1] = "-" /\ mag # <<0>>
        inrange == IF neg THEN ~MagLess(Int64MinMag, mag) ELSE ~MagLess(Int64MaxMag, mag)
    IN  IF wellformed /\ inrange
        THEN [ok |-> TRUE, val |-> [neg |-> neg, mag |-> mag]]
        ELSE [ok |-> FALSE, val |-> I64Zero]

(***************************************************************************)
(* util/mappoint                                                           *)
(***************************************************************************)
COORD_SCALE == 1000000
MAX_LATITUDE == 90
MAX_LONGITUDE == 180

\* std::llabs(v) > bound. std::llabs(INT64_MIN) is undefined: the negation wraps
\* to INT64_MIN (a negative value, not above the bound) or the comparison is
\* compiled as a range test (above the bound).
LlabsExceeds(v, bound, minNeg) ==
    IF v = Int64Min THEN ~minNeg ELSE MagLess(NatDigits(bound), v.mag)

BadPayload == [ok |-> FALSE, lat |-> I64Zero, lon |-> I64Zero]

\* The range checks of ParsePayload on the two parsed integers.
ParsePayloadValues(lat, lon, minNeg) ==
    IF ~lat.ok THEN BadPayload
    ELSE IF ~lon.ok THEN BadPayload
    ELSE IF LlabsExceeds(lat.val, MAX_LATITUDE * COORD_SCALE, minNeg) THEN BadPayload
    ELSE IF LlabsExceeds(lon.val, MAX_LONGITUDE * COORD_SCALE, minNeg) THEN BadPayload
    ELSE [ok |-> TRUE, lat |-> lat.val, lon |-> lon.val]

\* The checks of ParsePayload on the pieces of the payload.
ParsePayloadParts(parts, minNeg) ==
    IF Len(parts) # 3 THEN BadPayload
    ELSE IF parts[1] # MAP_POINT_PREFIX THEN BadPayload
    ELSE ParsePayloadValues(ParseInt64(parts[2]), ParseInt64(parts[3]), minNeg)

ParsePayload(payload, minNeg) ==
    IF Len(payload) < SizeofPrefix THEN BadPayload
    ELSE ParsePayloadParts(SplitString(payload, ":"), minNeg)

\* Transaction ids of the model are below 256: a uint256 whose only non-zero byte
\* is the least significant one. NoTxid stands for every other value.
NoTxid == 0

\* uint256::SetHex of 64 hexadecimal digits.
SetHex(hex) ==
    IF \A i \in 1..62 : hex[i] = "0"
    THEN 16 * HexVal(hex[63]) + HexVal(hex[64])
    ELSE NoTxid

BadTransferPayload == [ok |-> FALSE, txid |-> NoTxid]

\* The checks of ParseTransferPayload on the pieces of the payload.
ParseTransferPayloadParts(parts) ==
    IF Len(parts) # 2 THEN BadTransferPayload
    ELSE IF parts[1] # MAP_POINT_TRANSFER_PREFIX THEN BadTransferPayload
    ELSE IF Len(parts[2]) # 64 \/ ~(\A i \in 1..Len(parts[2]) : IsHexChar(parts[2][i])) THEN BadTransferPayload
    ELSE [ok |-> TRUE, txid |-> SetHex(parts[2])]

ParseTransferPayload(payload) ==
    IF Len(payload) <= SizeofPrefix THEN BadTransferPayload
    ELSE ParseTransferPayloadParts(SplitString(payload, ":"))

(***************************************************************************)
(* Serialization of keys and the order of a cursor.                        *)
(***************************************************************************)
\* READWRITE of a uint32_t: four bytes, least significant first.
SerU32(n) == <<n % 256, (n \div 256) % 256, (n \div 65536) % 256, (n \div 16777216) % 256>>

\* READWRITE of a uint256: its 32 bytes, least significant first.
SerU256(t) == [i \in 1..32 |-> IF i = 1 THEN t % 256 ELSE IF i = 2 THEN (t \div 256) % 256 ELSE 0]

\* HeightKey{height, txid}
SerHeightKey(k) == SerU32(k.height) \o SerU256(k.txid)
\* TransferKey{origin, transfer}
SerTransferKey(k) == SerU256(k.origin) \o SerU256(k.transfer)
\* TransferHeightKey{height, origin, transfer}
SerTransferHeightKey(k) == SerU32(k.height) \o SerU256(k.origin) \o SerU256(k.transfer)

\* The store's comparator: keys are ordered as byte strings.
RECURSIVE BytesLess(_, _)
BytesLess(a, b) ==
    IF b = <<>> THEN FALSE
    ELSE IF a = <<>> THEN TRUE
    ELSE IF Head(a) # Head(b) THEN Head(a) < Head(b)
    ELSE BytesLess(Tail(a), Tail(b))

\* The entries <<bytes, key>> of P in ascending order of their bytes.
RECURSIVE SortByBytes(_)
SortByBytes(P) ==
    IF P = {} THEN <<>>
    ELSE LET m == CHOOSE x \in P : \A y \in P \ {x} : BytesLess(x[1], y[1])
         IN  <<m[2]>> \o SortByBytes(P \ {m})

\* cursor->Seek(seek) within one keyspace, then Next() to the end of the
\* keyspace: the keys whose bytes are not below the seek key, in byte order.
HeightCursor(keys, seek) ==
    SortByBytes({<<SerHeightKey(k), k>> : k \in {x \in keys : ~BytesLess(SerHeightKey(x), SerHeightKey(seek))}})

TransferCursor(keys, seek) ==
    SortByBytes({<<SerTransferKey(k), k>> : k \in {x \in keys : ~BytesLess(SerTransferKey(x), SerTransferKey(seek))}})

TransferHeightCursor(keys, seek) ==
    SortByBytes({<<SerTransferHeightKey(k), k>> : k \in {x \in keys : ~BytesLess(SerTransferHeightKey(x), SerTransferHeightKey(seek))}})

(***************************************************************************)
(* The store. p: txid -> Record, h: set of HeightKey, o: set of OwnerKey,  *)
(* t: TransferKey -> TransferRecord, y: set of TransferHeightKey.          *)
(***************************************************************************)
EmptyFn == [x \in {} |-> x]
EmptyDB == [p |-> EmptyFn, h |-> {}, o |-> {}, t |-> EmptyFn, y |-> {}]

Put(f, k, v) == [x \in DOMAIN f \cup {k} |-> IF x = k THEN v ELSE f[x]]
Del(f, k) == [x \in DOMAIN f \ {k} |-> f[x]]

\* A running sequence of store writes: the store, the writes issued so far, whether
\* all of them succeeded, and the write that fails (0: none).
Begin(d, failAt) == [db |-> d, n |-> 0, ok |-> TRUE, failAt |-> failAt]

\* One Write / WriteBatch: applied whole, or not at all when it fails.
Commit(st, newdb) ==
    IF ~st.ok THEN st
    ELSE IF st.n + 1 = st.failAt THEN [st EXCEPT !.n = st.n + 1, !.ok = FALSE]
    ELSE [st EXCEPT !.n = st.n + 1, !.db = newdb]

RECURSIVE WritePointsBatch(_, _)
WritePointsBatch(d, records) ==
    IF records = <<>> THEN d
    ELSE LET txid == Head(records)[1]
             record == Head(records)[2]
             d1 == [d EXCEPT !.p = Put(d.p, txid, record),
                             !.h = d.h \cup {[height |-> record.height, txid |-> txid]}]
             d2 == IF record.current_owner # ""
                   THEN [d1 EXCEPT !.o = d1.o \cup {[owner |-> record.current_owner, txid |-> txid]}]
                   ELSE d1
         IN  WritePointsBatch(d2, Tail(records))

WritePoints(st, records) ==
    IF records = <<>> THEN st ELSE Commit(st, WritePointsBatch(st.db, records))

WriteRecord(st, txid, record) == Commit(st, [st.db EXCEPT !.p = Put(st.db.p, txid, record)])

UpdateOwnerIndex(st, old_owner, new_owner, origin) ==
    LET erased == IF old_owner # "" THEN st.db.o \ {[owner |-> old_owner, txid |-> origin]} ELSE st.db.o
        written == IF new_owner # "" THEN erased \cup {[owner |-> new_owner, txid |-> origin]} ELSE erased
    IN  Commit(st, [st.db EXCEPT !.o = written])

\* WriteTransfer without the transfer-height entry.
WriteTransferNoHeight(st, key, record) ==
    Commit(st, [st.db EXCEPT !.t = Put(st.db.t, key, record)])

WriteTransfer(st, key, record) ==
    Commit(st, [st.db EXCEPT !.t = Put(st.db.t, key, record),
                             !.y = st.db.y \cup {[height |-> record.height, origin |-> key.origin,
                                                  transfer |-> key.transfer]}])

\* The walk of ErasePointsAboveHeight over the height keys from the seek key.
RECURSIVE ErasePointsWalk(_, _, _, _)
ErasePointsWalk(d0, keys, batch, removed) ==
    IF keys = <<>> THEN [db |-> batch, removed |-> removed]
    ELSE LET key == Head(keys)
             found == key.txid \in DOMAIN d0.p
             record == d0.p[key.txid]
             b1 == IF found
                   THEN [batch EXCEPT !.p = Del(batch.p, key.txid),
                                      !.o = IF record.current_owner # ""
                                            THEN batch.o \ {[owner |-> record.current_owner, txid |-> key.txid]}
                                            ELSE batch.o]
                   ELSE batch
             b2 == [b1 EXCEPT !.h = b1.h \ {key}]
         IN  ErasePointsWalk(d0, Tail(keys), b2, IF found THEN Append(removed, key.txid) ELSE removed)

ErasedPoints(st, walk) == [st |-> Commit(st, walk.db), removed_points |-> walk.removed]

ErasePointsAboveHeight(st, height) ==
    ErasedPoints(st, ErasePointsWalk(st.db, HeightCursor(st.db.h, [height |-> height + 1, txid |-> NoTxid]),
                                     st.db, <<>>))

\* The walk of RemoveTransfersAboveHeight over the transfer-height keys.
RECURSIVE RemoveTransfersWalk(_, _, _, _, _)
RemoveTransfersWalk(d0, keys, height, batch, updates) ==
    IF keys = <<>> \/ Head(keys).height <= height THEN [db |-> batch, updates |-> updates]
    ELSE LET key == Head(keys)
             transfer_key == [origin |-> key.origin, transfer |-> key.transfer]
             found == transfer_key \in DOMAIN d0.t
             b1 == IF found THEN [batch EXCEPT !.t = Del(batch.t, transfer_key)] ELSE batch
             b2 == [b1 EXCEPT !.y = b1.y \ {key}]
         IN  RemoveTransfersWalk(d0, Tail(keys), height, b2,
                                 IF found THEN Append(updates, <<key.origin, d0.t[transfer_key].previous_owner>>)
                                 ELSE updates)

Reverse(s) == [i \in 1..Len(s) |-> s[Len(s) + 1 - i]]

RemovedTransfers(st, walk) == [st |-> Commit(st, walk.db), owner_updates |-> Reverse(walk.updates)]

RemoveTransfersAboveHeight(st, height) ==
    RemovedTransfers(st, RemoveTransfersWalk(st.db,
                    TransferHeightCursor(st.db.y, [height |-> height + 1, origin |-> NoTxid, transfer |-> NoTxid]),
                    height, st.db, <<>>))

\* The walk of RemoveAllTransfersForOrigin over the transfer keys.
RECURSIVE RemoveOriginWalk(_, _, _, _)
RemoveOriginWalk(d0, keys, origin, batch) ==
    IF keys = <<>> \/ Head(keys).origin # origin THEN batch
    ELSE LET key == Head(keys)
             record == d0.t[key]
             b1 == [batch EXCEPT !.y = batch.y \ {[height |-> record.height, origin |-> key.origin,
                                                  transfer |-> key.transfer]}]
             b2 == [b1 EXCEPT !.t = Del(b1.t, key)]
         IN  RemoveOriginWalk(d0, Tail(keys), origin, b2)

RemoveAllTransfersForOrigin(st, origin) ==
    Commit(st, RemoveOriginWalk(st.db, TransferCursor(DOMAIN st.db.t, [origin |-> origin, transfer |-> NoTxid]),
                                origin, st.db))

(***************************************************************************)
(* Transactions. An output is spendable with a destination ("" when none   *)
(* can be extracted from its script) or unspendable with pushed data       *)
(* (empty when the script is no OP_RETURN push). A destination stands for  *)
(* its encoded address. prevouts are the coins the inputs spend, as the    *)
(* block's undo data holds them.                                           *)
(***************************************************************************)
Pay(d) == [spendable |-> TRUE, dest |-> d, data |-> <<>>]
Data(s) == [spendable |-> FALSE, dest |-> "", data |-> s]

\* The payload of the first unspendable output ExtractOpReturnData accepts.
RECURSIVE FirstPayload(_)
FirstPayload(vout) ==
    IF vout = <<>> THEN <<>>
    ELSE IF ~Head(vout).spendable /\ Head(vout).data # <<>> THEN Head(vout).data
    ELSE FirstPayload(Tail(vout))

RECURSIVE FirstDestination(_)
FirstDestination(vout) ==
    IF vout = <<>> THEN ""
    ELSE IF Head(vout).spendable /\ Head(vout).dest # "" THEN Head(vout).dest
    ELSE FirstDestination(Tail(vout))

ExtractOwnerAddress(tx) ==
    [ok |-> FirstDestination(tx.vout) # "", owner |-> FirstDestination(tx.vout)]

NoRecord == [ok |-> FALSE, origin_owner |-> "", current_owner |-> "", encoded_lat |-> I64Zero, encoded_lon |-> I64Zero]

\* The checks of ExtractRecord on the payload, its parse and the owner.
ExtractRecordOf(tx, payload, parsed, owner) ==
    IF tx.coinbase THEN NoRecord
    ELSE IF payload = <<>> THEN NoRecord
    ELSE IF ~parsed.ok THEN NoRecord
    ELSE IF ~owner.ok THEN NoRecord
    ELSE [ok |-> TRUE, origin_owner |-> owner.owner, current_owner |-> owner.owner,
          encoded_lat |-> parsed.lat, encoded_lon |-> parsed.lon]

ExtractRecord(tx, minNeg) ==
    ExtractRecordOf(tx, FirstPayload(tx.vout), ParsePayload(FirstPayload(tx.vout), minNeg),
                    ExtractOwnerAddress(tx))

\* The owns_input loop of WriteBlock over the spent coins of the transaction.
OwnsInput(tx, prev_owner) ==
    \E i \in 1..Len(tx.prevouts) :
        /\ tx.prevouts[i].spendable
        /\ tx.prevouts[i].dest # ""
        /\ tx.prevouts[i].dest = prev_owner

NoTransfer == [ok |-> FALSE, origin |-> NoTxid, transfer_txid |-> NoTxid, height |-> 0,
               new_owner |-> "", prev_owner |-> ""]

\* The checks of WriteBlock's loop body on a transfer of origin_txid whose owner
\* so far is prev_owner ("" also when the origin is in neither map).
TransferBy(tx, tx_index, height, origin_txid, known, prev_owner, new_owner) ==
    IF tx_index = 0 THEN NoTransfer
    ELSE IF ~known THEN NoTransfer
    ELSE IF prev_owner = "" THEN NoTransfer
    ELSE IF ~OwnsInput(tx, prev_owner) THEN NoTransfer
    ELSE IF ~new_owner.ok THEN NoTransfer
    ELSE IF new_owner.owner = "" \/ new_owner.owner = prev_owner THEN NoTransfer
    ELSE [ok |-> TRUE, origin |-> origin_txid, transfer_txid |-> tx.txid, height |-> height,
          new_owner |-> new_owner.owner, prev_owner |-> prev_owner]

\* The owner of the origin as the store alone has it.
PrevOwnerInStore(d, pending_points, origin_txid) ==
    IF origin_txid \in DOMAIN d.p THEN d.p[origin_txid].current_owner ELSE ""

\* The owner WriteBlock finds for the origin: in the pending creations, else in
\* the store.
PrevOwner(d, pending_points, origin_txid) ==
    IF origin_txid \in DOMAIN pending_points THEN pending_points[origin_txid].current_owner
    ELSE IF origin_txid \in DOMAIN d.p THEN d.p[origin_txid].current_owner
    ELSE ""

\* The transfer a transaction asks for, judged against the pending creations and
\* the store: the part of WriteBlock's loop body after the undo data is loaded.
TransferOf(d, pending_points, tx, tx_index, height, origin_txid) ==
    TransferBy(tx, tx_index, height, origin_txid,
               origin_txid \in DOMAIN pending_points \/ origin_txid \in DOMAIN d.p,
               PrevOwner(d, pending_points, origin_txid), ExtractOwnerAddress(tx))

\* The payload WriteBlock's loop reads from a transaction that is no creation.
TransferPayload(tx) == IF tx.coinbase THEN <<>> ELSE FirstPayload(tx.vout)

\* pending_points.emplace(txid, record): an entry already there is kept.
Emplace(pending_points, txid, record) ==
    IF txid \in DOMAIN pending_points THEN pending_points ELSE Put(pending_points, txid, record)

\* The pending state after an accepted transfer.
PushTransfer(acc, transfer) ==
    [acc EXCEPT !.undo_loaded = TRUE,
                !.pending_points =
                    IF transfer.origin \in DOMAIN acc.pending_points
                    THEN [acc.pending_points EXCEPT ![transfer.origin].current_owner = transfer.new_owner]
                    ELSE acc.pending_points,
                !.pending_transfers = Append(acc.pending_transfers, transfer)]

\* One pass of WriteBlock's loop body over tx, the tx_index-th of the block.
ScanTx(d, tx, tx_index, height, undoOk, acc, record, parsed, transfer) ==
    IF record.ok
    THEN [acc EXCEPT !.pending_points =
            Emplace(acc.pending_points, tx.txid,
                    [height |-> height, origin_owner |-> record.origin_owner,
                     current_owner |-> record.current_owner,
                     encoded_lat |-> record.encoded_lat, encoded_lon |-> record.encoded_lon])]
    ELSE IF TransferPayload(tx) = <<>> THEN acc
    ELSE IF ~parsed.ok THEN acc
    ELSE IF ~acc.undo_loaded /\ ~undoOk THEN [acc EXCEPT !.ok = FALSE]
    ELSE IF ~transfer.ok THEN [acc EXCEPT !.undo_loaded = TRUE]
    ELSE PushTransfer(acc, transfer)

ScanStart == [pending_points |-> EmptyFn, pending_transfers |-> <<>>, undo_loaded |-> FALSE, ok |-> TRUE]

\* The loop of WriteBlock over the transactions of the block, from the i-th on.
RECURSIVE ScanBlock(_, _, _, _, _, _, _)
ScanBlock(d, vtx, i, height, undoOk, minNeg, acc) ==
    IF i > Len(vtx) \/ ~acc.ok THEN acc
    ELSE ScanBlock(d, vtx, i + 1, height, undoOk, minNeg,
            ScanTx(d, vtx[i], i - 1, height, undoOk, acc,
                   ExtractRecord(vtx[i], minNeg),
                   ParseTransferPayload(TransferPayload(vtx[i])),
                   TransferOf(d, acc.pending_points, vtx[i], i - 1, height,
                              ParseTransferPayload(TransferPayload(vtx[i])).txid)))

\* std::map<uint256, Record> in iteration order, as the creations vector.
RECURSIVE Creations(_)
Creations(pending_points) ==
    IF DOMAIN pending_points = {} THEN <<>>
    ELSE LET m == CHOOSE x \in DOMAIN pending_points : \A y \in DOMAIN pending_points : x <= y
         IN  <<<<m, pending_points[m]>>>> \o Creations(Del(pending_points, m))

\* One pass of the loop of WriteBlock that applies a pending transfer.
ApplyTransfer(st, transfer, record) ==
    WriteTransfer(
        UpdateOwnerIndex(
            WriteRecord(st, transfer.origin, [record EXCEPT !.current_owner = transfer.new_owner]),
            record.current_owner, transfer.new_owner, transfer.origin),
        [origin |-> transfer.origin, transfer |-> transfer.transfer_txid],
        [height |-> transfer.height, new_owner |-> transfer.new_owner,
         previous_owner |-> transfer.prev_owner])

\* The loop of WriteBlock that applies the pending transfers to the store.
RECURSIVE ApplyTransfers(_, _)
ApplyTransfers(st, transfers) ==
    IF transfers = <<>> \/ ~st.ok THEN st
    ELSE IF Head(transfers).origin \notin DOMAIN st.db.p THEN ApplyTransfers(st, Tail(transfers))
    ELSE ApplyTransfers(ApplyTransfer(st, Head(transfers), st.db.p[Head(transfers).origin]),
                        Tail(transfers))

\* The writes of WriteBlock after its loop over the block.
WriteScanned(d, scan, failAt) ==
    IF ~scan.ok THEN [Begin(d, failAt) EXCEPT !.ok = FALSE]
    ELSE ApplyTransfers(WritePoints(Begin(d, failAt), Creations(scan.pending_points)),
                        scan.pending_transfers)

\* MapPointIndex::WriteBlock: the result, the store it leaves and the number of
\* store writes it issued.
WriteBlockRun(d, vtx, height, undoOk, failAt, minNeg) ==
    WriteScanned(d, ScanBlock(d, vtx, 1, height, undoOk, minNeg, ScanStart), failAt)

\* One pass of the loop of Rewind that restores the owner of a surviving point.
ApplyOwnerUpdate(st, origin, owner, record) ==
    UpdateOwnerIndex(WriteRecord(st, origin, [record EXCEPT !.current_owner = owner]),
                     record.current_owner, owner, origin)

\* The loop of Rewind that restores the owners of the surviving points.
RECURSIVE ApplyOwnerUpdates(_, _)
ApplyOwnerUpdates(st, updates) ==
    IF updates = <<>> \/ ~st.ok THEN st
    ELSE IF Head(updates)[1] \notin DOMAIN st.db.p THEN ApplyOwnerUpdates(st, Tail(updates))
    ELSE ApplyOwnerUpdates(
            ApplyOwnerUpdate(st, Head(updates)[1], Head(updates)[2], st.db.p[Head(updates)[1]]),
            Tail(updates))

\* The loop of Rewind over the removed points.
RECURSIVE RemoveTransfersOfOrigins(_, _)
RemoveTransfersOfOrigins(st, origins) ==
    IF origins = <<>> \/ ~st.ok THEN st
    ELSE RemoveTransfersOfOrigins(RemoveAllTransfersForOrigin(st, Head(origins)), Tail(origins))

\* Rewind from the erasing of the points on.
RewindErased(erased) == RemoveTransfersOfOrigins(erased.st, erased.removed_points)

\* Rewind from the restoring of the owners on.
RewindRestored(removed, height) ==
    RewindErased(ErasePointsAboveHeight(ApplyOwnerUpdates(removed.st, removed.owner_updates), height))

\* MapPointIndex::Rewind to new_tip->nHeight = height: the result, the store it
\* leaves and the number of store writes it issued.
RewindRun(d, height, failAt) ==
    RewindRestored(RemoveTransfersAboveHeight(Begin(d, failAt), height), height)

(***************************************************************************)
(* Payloads as the wallet builds them.                                     *)
(***************************************************************************)
\* strprintf("%d") of an int64_t.
FormatInt(v) ==
    (IF v.neg THEN <<"-">> ELSE <<>>) \o [i \in 1..Len(v.mag) |-> DecChars[v.mag[i] + 1]]

\* mappoint::BuildPayload
BuildPayload(encoded_lat, encoded_lon) ==
    MAP_POINT_PREFIX \o <<":">> \o FormatInt(encoded_lat) \o <<":">> \o FormatInt(encoded_lon)

\* uint256::GetHex of a transaction id of the model.
GetHex(t) ==
    [i \in 1..64 |-> IF i = 63 THEN HexChars[(t \div 16) + 1]
                     ELSE IF i = 64 THEN HexChars[(t % 16) + 1] ELSE "0"]

\* The transfer payload the wallet builds: the prefix, ':' and the origin in hex.
BuildTransferPayload(origin) == MAP_POINT_TRANSFER_PREFIX \o <<":">> \o GetHex(origin)

(***************************************************************************)
(* The transactions the model draws blocks from. Each has its own id.      *)
(***************************************************************************)
Tx(id, vout, prevouts) == [txid |-> id, coinbase |-> FALSE, vout |-> vout, prevouts |-> prevouts]

\* The coinbase of the block at a height pays A; it carries a creation payload at
\* an even height and a transfer payload for the point of transaction 1 at an odd one.
Coinbase(height) ==
    [txid |-> 200 + (height % 50), coinbase |-> TRUE,
     vout |-> <<Pay("A"), Data(IF height % 2 = 0 THEN BuildPayload(I64(1), I64(2))
                               ELSE BuildTransferPayload(1))>>,
     prevouts |-> <<>>]

Universe ==
    { Tx(1, <<Data(BuildPayload(I64(55751244), I64(37618423))), Pay("A")>>, <<Pay("C")>>),
      Tx(2, <<Pay("B"), Data(BuildTransferPayload(1))>>, <<Pay("A"), Pay("C")>>),
      Tx(3, <<Data(BuildTransferPayload(1)), Pay("C")>>, <<Pay("A")>>),
      Tx(4, <<Data(BuildTransferPayload(1)), Pay("C")>>, <<Pay("B")>>),
      Tx(5, <<Data(BuildPayload(I64(-90000000), I64(180000000))), Pay(""), Pay("B")>>, <<Pay("B")>>) }

\* The sequences of at most n distinct elements of S.
RECURSIVE InjSeqs(_, _)
InjSeqs(S, n) ==
    IF n = 0 THEN {<<>>}
    ELSE {<<>>} \cup UNION {{<<x>> \o q : q \in InjSeqs(S \ {x}, n - 1)} : x \in S}

\* The transactions of the blocks of the chain.
ChainTxids == UNION {{chain[i][j].txid : j \in 1..Len(chain[i])} : i \in 1..Len(chain)}

(***************************************************************************)
(* The index driven by the chain: blocks are written at the tip, a         *)
(* reorganization rewinds to a lower height. A call that returns false     *)
(* halts indexing. last records the latest call and the store it found.    *)
(***************************************************************************)
\* No coordinate pair is being encoded.
NoCalc == [stage |-> "idle"]

\* Collateral outpoints of the masternodes registered at the start.
MasternodeOutpoints == {"m1", "m2"}

\* GovernanceStore() and CGovernanceManager(): every container empty. The two
\* bounded caches and the orphan cache list their entries oldest first.
NewGovernanceManager ==
    [mapObjects |-> <<>>,
     mapPostponedObjects |-> <<>>,
     mapErasedGovernanceObjects |-> <<>>,
     cmapVoteToObject |-> <<>>,
     cmapInvalidVotes |-> <<>>,
     cmmapOrphanVotes |-> <<>>,
     m_requested_hash_time |-> <<>>,
     m_relay_invs |-> <<>>,
     lastMNListForVotingKeys |-> {}]

\* The governance manager as constructed, before the node synced anything.
GovIdle ==
    /\ gov = NewGovernanceManager
    /\ now = StartTime
    /\ mn_sync = "initial"
    /\ tip_mn_list = MasternodeOutpoints

\* No handler thread is inside AcceptMessage.
HandlersIdle ==
    /\ threads = <<>>
    /\ cs = 0
    /\ tally = <<>>

\* No trigger has reached the rate check.
NoRate == [mapLastMasternodeObject |-> <<>>, admitted |-> <<>>]
\* No trigger is stored and GetBestSuperblock was not called.
NoSuperblock ==
    [mapTrigger |-> <<>>, nSilent |-> 0, op |-> "none", call |-> 0, ret |-> FALSE,
     pSuperblockRet |-> 0, voutIn |-> <<>>, voutRet |-> <<>>]
\* No message was handled.
NoMsg == [op |-> "none"]
\* The relay job is between two runs; nothing was enqueued or relayed.
RelayIdle == [pc |-> "idle", i |-> 1, holder |-> 0, enq |-> <<>>, out |-> <<>>]
\* Threads that run manager operations, and a thread outside every operation.
LockThreads == {1, 2}
NoOperation == [name |-> "none", code |-> <<>>, pc |-> 1, held |-> <<>>]
LocksIdle == [t \in LockThreads |-> NoOperation]
\* GetApprovedProposals was not called; no object is known.
NoProps == [mapObjects |-> <<>>, nSilent |-> 0, called |-> FALSE, ret |-> <<>>]
\* RequestGovernanceObjectVotes was never called.
NoAsked == [mapObjects |-> <<>>, mapAskedRecently |-> <<>>, sent |-> <<>>]
PlanesIdle == relay = RelayIdle /\ locks = LocksIdle /\ props = NoProps /\ asked = NoAsked
RateIdle == rate = NoRate /\ sb = NoSuperblock /\ glast = NoMsg /\ PlanesIdle

NoCall == [op |-> "init", ok |-> TRUE, height |-> StartHeight, vtx |-> <<>>, before |-> EmptyDB,
           prior |-> EmptyDB]

InitIndex ==
    /\ tip = StartHeight
    /\ chain = <<>>
    /\ db = EmptyDB
    /\ halted = FALSE
    /\ rewinds = 0
    /\ last = NoCall

\* The index after write_block of vtx at height has returned r.
WriteBlockDone(height, vtx, r) ==
    /\ db' = r.db
    /\ tip' = IF r.ok THEN height ELSE tip
    /\ chain' = IF r.ok THEN Append(chain, vtx) ELSE chain
    /\ halted' = ~r.ok
    /\ last' = [op |-> "write_block", ok |-> r.ok, height |-> height, vtx |-> vtx, before |-> db,
                prior |-> db]

\* write_block of vtx as the next block; the failAt-th store write fails.
WriteBlockOf(vtx, undoOk) ==
    \E failAt \in 0..WriteBlockRun(db, vtx, tip + 1, undoOk, 0, llabs_min_neg).n :
        WriteBlockDone(tip + 1, vtx, WriteBlockRun(db, vtx, tip + 1, undoOk, failAt, llabs_min_neg))

WriteBlock ==
    /\ ~halted
    /\ Len(chain) < MaxBlocks
    /\ \E txs \in InjSeqs(Universe, MaxBlockTxs), undoOk \in BOOLEAN :
        /\ \A i \in 1..Len(txs) : txs[i].txid \notin ChainTxids
        /\ WriteBlockOf(<<Coinbase(tip + 1)>> \o txs, undoOk)
    /\ UNCHANGED <<rewinds, llabs_min_neg>>
    /\ UNCHANGED nonIndexVars

\* The index after rewind to the height to has returned r.
RewindDone(to, r) ==
    /\ db' = r.db
    /\ tip' = IF r.ok THEN to ELSE tip
    /\ chain' = IF r.ok THEN SubSeq(chain, 1, to - StartHeight) ELSE chain
    /\ halted' = ~r.ok
    /\ last' = [op |-> "rewind", ok |-> r.ok, height |-> to, vtx |-> <<>>, before |-> db, prior |-> db]

\* rewind(current tip, new tip at the height to); the failAt-th store write fails.
Rewind ==
    /\ ~halted
    /\ rewinds < MaxRewinds
    /\ rewinds' = rewinds + 1
    /\ UNCHANGED nonIndexVars
    /\ \E to \in StartHeight..(tip - 1) :
        \E failAt \in 0..RewindRun(db, to, 0).n : RewindDone(to, RewindRun(db, to, failAt))
    /\ UNCHANGED llabs_min_neg

Init ==
    /\ InitIndex
    /\ llabs_min_neg = TRUE
    /\ calc = NoCalc
    /\ GovIdle
    /\ HandlersIdle
    /\ RateIdle

Next == WriteBlock \/ Rewind

Spec == Init /\ [][Next]_vars

(***************************************************************************)
(* The index when a block is handed to write_block a second time.          *)
(***************************************************************************)
\* The index after the second write_block of the tip's block has returned r.
ReplayDone(r) ==
    /\ db' = r.db
    /\ halted' = ~r.ok
    /\ last' = [op |-> "replay", ok |-> r.ok, height |-> tip, vtx |-> last.vtx, before |-> db,
                prior |-> last.before]

\* write_block of the block of the tip again, directly after its first
\* write_block returned true.
Replay ==
    /\ ~halted
    /\ last.op = "write_block"
    /\ last.ok
    /\ ReplayDone(WriteBlockRun(db, last.vtx, tip, TRUE, 0, llabs_min_neg))
    /\ UNCHANGED <<tip, chain, rewinds, llabs_min_neg>>
    /\ UNCHANGED nonIndexVars

NextReplay == WriteBlock \/ Replay

SpecReplay == Init /\ [][NextReplay]_vars

(***************************************************************************)
(* The index fed with payloads of every shape, on either build.            *)
(***************************************************************************)
\* A transaction with one input spending an output of A, an output to B and the
\* payload.
PayloadTx(id, payload) == Tx(id, <<Data(payload), Pay("B")>>, <<Pay("A")>>)

Zeros(n) == [i \in 1..n |-> "0"]

PayloadUniverse ==
    { PayloadTx(11, MAP_POINT_PREFIX \o <<":", "9", "0", "0", "0", "0", "0", "0", "0", ":", "-", "1", "8", "0", "0", "0", "0", "0", "0", "0">>),
      PayloadTx(12, MAP_POINT_PREFIX \o <<":", "9", "0", "0", "0", "0", "0", "0", "1", ":", "0">>),
      PayloadTx(13, MAP_POINT_PREFIX \o <<":", "0", ":", "1", "8", "0", "0", "0", "0", "0", "0", "1">>),
      PayloadTx(14, MAP_POINT_PREFIX \o <<":", "-", "9", "2", "2", "3", "3", "7", "2", "0", "3", "6", "8", "5", "4", "7", "7", "5", "8", "0", "8", ":", "0">>),
      PayloadTx(15, MAP_POINT_PREFIX \o <<":", "5">>),
      PayloadTx(16, MAP_POINT_PREFIX \o <<":", "5", ":", "x">>),
      PayloadTx(17, <<"O", "R", "I", "N", "M", "A", "P", "2", ":", "1", ":", "2">>),
      PayloadTx(18, MAP_POINT_TRANSFER_PREFIX \o <<":">> \o Zeros(61) \o <<"0", "b">>),
      PayloadTx(19, MAP_POINT_TRANSFER_PREFIX \o <<":">> \o Zeros(61) \o <<"0", "g", "b">>),
      Tx(20, <<Data(MAP_POINT_TRANSFER_PREFIX \o <<":">> \o Zeros(61) \o <<"0", "0", "B">>), Pay("C")>>,
         <<Pay("B")>>),
      PayloadTx(21, MAP_POINT_PREFIX \o <<":", "9", "2", "2", "3", "3", "7", "2", "0", "3", "6", "8", "5", "4", "7", "7", "5", "8", "0", "8", ":", "0">>),
      PayloadTx(22, MAP_POINT_PREFIX \o <<":", "1", ":", "2", ":", "3">>),
      PayloadTx(23, MAP_POINT_PREFIX \o <<":", "+", "7", ":", "-", "0">>) }

\* write_block of the next block, made of a coinbase and one transaction with a
\* payload; no store write fails.
WritePayloadBlock ==
    /\ ~halted
    /\ Len(chain) < MaxBlocks
    /\ \E tx \in PayloadUniverse, undoOk \in BOOLEAN :
        /\ tx.txid \notin ChainTxids
        /\ WriteBlockDone(tip + 1, <<Coinbase(tip + 1), tx>>,
                          WriteBlockRun(db, <<Coinbase(tip + 1), tx>>, tip + 1, undoOk, 0, llabs_min_neg))
    /\ UNCHANGED <<rewinds, llabs_min_neg>>
    /\ UNCHANGED nonIndexVars

\* The index on either outcome of std::llabs(INT64_MIN).
InitPayload ==
    /\ InitIndex
    /\ llabs_min_neg \in BOOLEAN
    /\ calc = NoCalc
    /\ GovIdle
    /\ HandlersIdle
    /\ RateIdle

NextPayload == WritePayloadBlock

SpecPayload == InitPayload /\ [][NextPayload]_vars

(***************************************************************************)
(* Coordinates. A double is a finite value, counted in units of 10^-7      *)
(* degree, or NaN or an infinity. A product that falls exactly between two *)
(* integers is not representable in binary: llround sees it just above or  *)
(* just below the half, so such a value rounds either way (tie).           *)
(***************************************************************************)
UnitsPerDegree == 10000000

Finite(v) == [kind |-> "finite", v |-> v]
NaN == [kind |-> "nan", v |-> 0]
PlusInf == [kind |-> "inf", v |-> 0]
MinusInf == [kind |-> "-inf", v |-> 0]

\* llround(value * COORD_SCALE) of a finite value.
LlroundScaled(v, tie) ==
    IF ((IF v < 0 THEN -v ELSE v) % (UnitsPerDegree \div COORD_SCALE)) * 2 = UnitsPerDegree \div COORD_SCALE
    THEN IF tie = "away"
         THEN (IF v < 0 THEN -1 ELSE 1) * (((IF v < 0 THEN -v ELSE v) \div (UnitsPerDegree \div COORD_SCALE)) + 1)
         ELSE (IF v < 0 THEN -1 ELSE 1) * ((IF v < 0 THEN -v ELSE v) \div (UnitsPerDegree \div COORD_SCALE))
    ELSE (IF v < 0 THEN -1 ELSE 1) *
         (((IF v < 0 THEN -v ELSE v) + (UnitsPerDegree \div COORD_SCALE) \div 2)
              \div (UnitsPerDegree \div COORD_SCALE))

\* EncodeCoordinate without its range check.
EncodeCoordinateNoRange(value, max_abs, out, tie) ==
    IF value.kind # "finite"
    THEN [ok |-> FALSE, out |-> out, error |-> "Coordinate must be a finite number"]
    ELSE [ok |-> TRUE, out |-> LlroundScaled(value.v, tie), error |-> ""]

\* EncodeCoordinate(value, max_abs, out, error)
EncodeCoordinate(value, max_abs, out, tie) ==
    IF value.kind # "finite"
    THEN [ok |-> FALSE, out |-> out, error |-> "Coordinate must be a finite number"]
    ELSE IF value.v < -(max_abs * UnitsPerDegree) \/ value.v > max_abs * UnitsPerDegree
    THEN [ok |-> FALSE, out |-> out, error |-> "Coordinate out of range"]
    ELSE [ok |-> TRUE, out |-> LlroundScaled(value.v, tie), error |-> ""]

\* EncodeCoordinates from the encoding of the latitude on.
EncodeLongitude(lon, e_lat, tie) ==
    IF ~e_lat.ok THEN [ok |-> FALSE, encoded_lat |-> e_lat.out, encoded_lon |-> 0, error |-> e_lat.error]
    ELSE [ok |-> EncodeCoordinate(lon, MAX_LONGITUDE, 0, tie).ok, encoded_lat |-> e_lat.out,
          encoded_lon |-> EncodeCoordinate(lon, MAX_LONGITUDE, 0, tie).out,
          error |-> EncodeCoordinate(lon, MAX_LONGITUDE, 0, tie).error]

\* EncodeCoordinates(lat, lon, encoded_lat, encoded_lon, error)
EncodeCoordinates(lat, lon, tie) ==
    EncodeLongitude(lon, EncodeCoordinate(lat, MAX_LATITUDE, 0, tie), tie)

\* DecodeCoordinate(encoded), in units of 10^-7 degree.
DecodeCoordinate(encoded) == encoded * (UnitsPerDegree \div COORD_SCALE)

LatInputs ==
    {NaN, PlusInf, MinusInf} \cup
    {Finite(v) : v \in {-900000001, -900000000, -557512445, -1, 0, 4, 5, 15, 557512440,
                        899999995, 900000000, 900000001}}

LonInputs ==
    {NaN, MinusInf} \cup
    {Finite(v) : v \in {-1800000001, -1800000000, -5, 0, 376184230, 1799999995,
                        1800000000, 1800000001}}

\* The index stays as constructed while coordinates are encoded.
InitCoord ==
    /\ InitIndex
    /\ llabs_min_neg = TRUE
    /\ calc \in {[stage |-> "input", lat |-> a, lon |-> b, tie |-> t] :
                    a \in LatInputs, b \in LonInputs, t \in {"away", "toward"}}
    /\ GovIdle
    /\ HandlersIdle
    /\ RateIdle

\* The wallet encodes the pair.
Encode ==
    /\ calc.stage = "input"
    /\ calc' = [stage |-> "encoded", lat |-> calc.lat, lon |-> calc.lon, tie |-> calc.tie,
                enc |-> EncodeCoordinates(calc.lat, calc.lon, calc.tie)]
    /\ UNCHANGED nonCoordVars

\* The wallet builds the payload of the encoded pair.
Build ==
    /\ calc.stage = "encoded"
    /\ calc.enc.ok
    /\ calc' = [stage |-> "built", lat |-> calc.lat, lon |-> calc.lon, tie |-> calc.tie, enc |-> calc.enc,
                payload |-> BuildPayload(I64(calc.enc.encoded_lat), I64(calc.enc.encoded_lon))]
    /\ UNCHANGED nonCoordVars

\* The index parses the payload.
Parse ==
    /\ calc.stage = "built"
    /\ calc' = [stage |-> "parsed", lat |-> calc.lat, lon |-> calc.lon, tie |-> calc.tie, enc |-> calc.enc,
                payload |-> calc.payload, parsed |-> ParsePayload(calc.payload, llabs_min_neg)]
    /\ UNCHANGED nonCoordVars

NextCoord == Encode \/ Build \/ Parse

SpecCoord == InitCoord /\ [][NextCoord]_vars

(***************************************************************************)
(* Governance manager. Hashes are small numbers; time is in minutes.       *)
(* The objects of the universe are proposals, so no trigger view exists    *)
(* and the rate check passes; all votes carry the signal FUNDING.          *)
(***************************************************************************)
GOVERNANCE_DELETION_DELAY == 10
GOVERNANCE_ORPHAN_EXPIRATION_TIME == 10
RELIABLE_PROPAGATION_TIME == 1
\* std::numeric_limits<int64_t>::max() as an expiry time: later than every clock value.
INT64_MAX_TIME == 2147483647

\* Minutes between two clock values, and the number of clock advances.
TickMinutes == 10
MaxTicks == 2
\* Capacity of the bounded caches.
MAX_CACHE_SIZE == 2
\* Hashes the node may be waiting for at one time.
MaxRequested == 1
\* Messages and tip updates arrive while the relay queue is shorter than this.
MaxRelayQueue == 1

MSG_GOVERNANCE_OBJECT == "MSG_GOVERNANCE_OBJECT"
MSG_GOVERNANCE_OBJECT_VOTE == "MSG_GOVERNANCE_OBJECT_VOTE"
\* An inventory type that is not a governance type.
MSG_TX == "MSG_TX"

\* A proposal as a peer sends it; end_epoch is the end time in its plain text.
GovObject(hash, end_epoch) == [hash |-> hash, type |-> "PROPOSAL", end_epoch |-> end_epoch]
\* A vote as a peer sends it; sig tells whether its signature verifies.
GovVote(hash, parent, outpoint, sig) == [hash |-> hash, parent |-> parent, outpoint |-> outpoint, sig |-> sig]

ObjectUniverse == {GovObject(1, StartTime + 5), GovObject(2, INT64_MAX_TIME)}
VoteUniverse ==
    {GovVote(11, 1, "m1", TRUE), GovVote(12, 1, "m2", TRUE), GovVote(13, 2, "m1", FALSE)}
InvUniverse ==
    {[type |-> MSG_GOVERNANCE_OBJECT, hash |-> o.hash] : o \in ObjectUniverse} \cup
    {[type |-> MSG_GOVERNANCE_OBJECT_VOTE, hash |-> v.hash] : v \in VoteUniverse}
\* What the fee says about an object's fee transaction.
ChainAnswers == {"valid", "missing_confirmations", "invalid"}

\* std::map: insert (an existing key keeps its value) and erase.
MapInsert(map, key, value) ==
    IF key \in DOMAIN map THEN map
    ELSE [k \in DOMAIN map \cup {key} |-> IF k = key THEN value ELSE map[k]]
MapErase(map, key) == [k \in DOMAIN map \ {key} |-> map[k]]
\* The keys of a std::map in iteration order.
KeysInOrder(map) == SortByBytes({<<SerU256(k), k>> : k \in DOMAIN map})

\* CacheMap / CacheMultiMap: HasKey, Insert (the oldest entry goes when the
\* cache is full), Erase by key, Erase of one entry.
CacheHasKey(cache, key) == \E i \in 1..Len(cache) : cache[i].key = key
CachePrune(cache) == IF Len(cache) = MAX_CACHE_SIZE THEN Tail(cache) ELSE cache
CacheMapInsert(cache, key, value) ==
    IF CacheHasKey(cache, key) THEN cache
    ELSE Append(CachePrune(cache), [key |-> key, value |-> value])
CacheMultiMapInsert(cache, key, value) ==
    IF \E i \in 1..Len(CachePrune(cache)) : CachePrune(cache)[i] = [key |-> key, value |-> value]
    THEN CachePrune(cache)
    ELSE Append(CachePrune(cache), [key |-> key, value |-> value])
CacheErase(cache, key) == SelectSeq(cache, LAMBDA e : e.key # key)
CacheEraseEntry(cache, key, value) == SelectSeq(cache, LAMBDA e : e # [key |-> key, value |-> value])
CacheGetAll(cache, key) == SelectSeq(cache, LAMBDA e : e.key = key)

\* Votes of both masternodes on proposal 2, which never ends.
PurgeVotes == {GovVote(15, 2, "m1", TRUE), GovVote(16, 2, "m2", TRUE)}

\* The vote with the given hash.
VoteOf(hash) == CHOOSE v \in VoteUniverse \cup PurgeVotes : v.hash = hash

\* An object as the manager holds it.
StoredObject(govobj) ==
    [obj |-> govobj, fileVotes |-> {}, fCachedDelete |-> FALSE, fExpired |-> FALSE, nDeletionTime |-> 0]

\* CProposalValidator::Validate: the proposal has not ended.
Validate(govobj, nNow) == govobj.end_epoch > nNow

\* CGovernanceObject::IsValidLocally
IsValidLocally(govobj, fee, nNow) == IF Validate(govobj, nNow) THEN fee ELSE "invalid"

\* CGovernanceObject::PrepareDeletion
PrepareDeletion(stored, nDeletionTime_) ==
    [stored EXCEPT !.fCachedDelete = TRUE,
                   !.nDeletionTime = IF @ = 0 THEN nDeletionTime_ ELSE @]

\* CGovernanceObject::ProcessVote: the object after the vote, whether the vote
\* was stored, and whether it was reported to the manager as invalid.
ObjectProcessVote(stored, vote, mn_list) ==
    IF vote.outpoint \notin mn_list \/ vote.hash \in stored.fileVotes
    THEN [ok |-> FALSE, stored |-> stored, invalid |-> FALSE]
    ELSE IF ~vote.sig
    THEN [ok |-> FALSE, stored |-> stored, invalid |-> TRUE]
    ELSE [ok |-> TRUE, stored |-> [stored EXCEPT !.fileVotes = @ \cup {vote.hash}], invalid |-> FALSE]

\* CGovernanceObject::ClearMasternodeVotes: the votes of masternodes that are
\* not in the list leave the vote file.
ClearMasternodeVotes(stored, mn_list) ==
    [stored EXCEPT !.fileVotes = {h \in @ : VoteOf(h).outpoint \in mn_list}]

\* CGovernanceObject::RemoveInvalidVotes: the hashes of the votes of the outpoint.
InvalidVotesOf(stored, outpoint) == {h \in stored.fileVotes : VoteOf(h).outpoint = outpoint}

\* CGovernanceManager::AddInvalidVote
AddInvalidVote(g, vote) ==
    [g EXCEPT !.cmapInvalidVotes = CacheMapInsert(@, vote.hash, vote)]

\* CGovernanceManager::RelayObject
RelayObject(g, hash, sync) ==
    IF sync # "synced" THEN g
    ELSE [g EXCEPT !.m_relay_invs = Append(@, [type |-> MSG_GOVERNANCE_OBJECT, hash |-> hash])]

\* CGovernanceManager::RelayVote
RelayVote(g, vote, sync, mn_list) ==
    IF sync # "synced" \/ vote.outpoint \notin mn_list THEN g
    ELSE [g EXCEPT !.m_relay_invs = Append(@, [type |-> MSG_GOVERNANCE_OBJECT_VOTE, hash |-> vote.hash])]

\* CGovernanceManager::AcceptMessage: the manager after the call; the call
\* returned true when the hash was on the request list.
AcceptMessage(g, nHash) == [g EXCEPT !.m_requested_hash_time = MapErase(@, nHash)]

\* One orphan vote of CheckOrphanVotes, given the outcome r of applying it.
CheckOrphanVote(g, nHash, pairVote, r, nNow, sync, mn_list) ==
    IF pairVote.expire < nNow
    THEN [g EXCEPT !.cmmapOrphanVotes = CacheEraseEntry(@, nHash, pairVote)]
    ELSE IF r.ok
    THEN [RelayVote(g, pairVote.vote, sync, mn_list)
            EXCEPT !.cmmapOrphanVotes = CacheEraseEntry(@, nHash, pairVote)]
    ELSE IF r.invalid THEN AddInvalidVote(g, pairVote.vote)
    ELSE g

\* The loop of CheckOrphanVotes: govobj is the object the votes are applied to.
RECURSIVE CheckOrphanVotesLoop(_, _, _, _, _, _, _)
CheckOrphanVotesLoop(g, nHash, vecVotePairs, govobj, nNow, sync, mn_list) ==
    IF vecVotePairs = <<>> THEN g
    ELSE CheckOrphanVotesLoop(
            CheckOrphanVote(g, nHash, Head(vecVotePairs).value,
                            ObjectProcessVote(govobj, Head(vecVotePairs).value.vote, mn_list),
                            nNow, sync, mn_list),
            nHash, Tail(vecVotePairs),
            IF Head(vecVotePairs).value.expire < nNow THEN govobj
            ELSE ObjectProcessVote(govobj, Head(vecVotePairs).value.vote, mn_list).stored,
            nNow, sync, mn_list)

\* CGovernanceManager::CheckOrphanVotes(govobj)
CheckOrphanVotes(g, govobj, nNow, sync, mn_list) ==
    CheckOrphanVotesLoop(g, govobj.obj.hash, CacheGetAll(g.cmmapOrphanVotes, govobj.obj.hash),
                         govobj, nNow, sync, mn_list)

\* CGovernanceManager::AddGovernanceObject(govobj): the object is copied into
\* mapObjects; the orphan votes are applied to the caller's govobj.
AddGovernanceObject(g, govobj, fee, nNow, sync, mn_list) ==
    IF IsValidLocally(govobj, fee, nNow) # "valid" THEN g
    ELSE IF govobj.hash \in DOMAIN g.mapObjects THEN g
    ELSE CheckOrphanVotes(
            RelayObject([g EXCEPT !.mapObjects = MapInsert(@, govobj.hash, StoredObject(govobj))],
                        govobj.hash, sync),
            StoredObject(govobj), nNow, sync, mn_list)

\* CGovernanceManager::AddPostponedObjectInternal
AddPostponedObjectInternal(g, govobj) ==
    [g EXCEPT !.mapPostponedObjects = MapInsert(@, govobj.hash, govobj)]

\* ProcessMessage, MNGOVERNANCEOBJECT, once the message was accepted, with a
\* handler that drops an object whose fee lacks confirmations.
ProcessObjectAcceptedNoPostpone(g, govobj, fee, nNow, sync, mn_list) ==
    IF govobj.hash \in DOMAIN g.mapObjects \cup DOMAIN g.mapPostponedObjects
                       \cup DOMAIN g.mapErasedGovernanceObjects
    THEN g
    ELSE IF IsValidLocally(govobj, fee, nNow) # "valid" THEN g
    ELSE AddGovernanceObject(g, govobj, fee, nNow, sync, mn_list)

\* ProcessMessage, MNGOVERNANCEOBJECT, once the message was accepted.
ProcessObjectAccepted(g, govobj, fee, nNow, sync, mn_list) ==
    IF govobj.hash \in DOMAIN g.mapObjects \cup DOMAIN g.mapPostponedObjects
                       \cup DOMAIN g.mapErasedGovernanceObjects
    THEN g
    ELSE IF IsValidLocally(govobj, fee, nNow) = "missing_confirmations"
    THEN AddPostponedObjectInternal(g, govobj)
    ELSE IF IsValidLocally(govobj, fee, nNow) = "invalid" THEN g
    ELSE AddGovernanceObject(g, govobj, fee, nNow, sync, mn_list)

\* ProcessMessage, MNGOVERNANCEOBJECT, without the call of AcceptMessage.
ProcessMessageObjectUnrequested(g, govobj, fee, nNow, sync, mn_list) ==
    IF sync = "initial" THEN g
    ELSE ProcessObjectAccepted(g, govobj, fee, nNow, sync, mn_list)

\* CGovernanceManager::ProcessMessage, MNGOVERNANCEOBJECT
ProcessMessageObject(g, govobj, fee, nNow, sync, mn_list) ==
    IF sync = "initial" THEN g
    ELSE IF govobj.hash \notin DOMAIN g.m_requested_hash_time THEN g
    ELSE ProcessObjectAccepted(AcceptMessage(g, govobj.hash), govobj, fee, nNow, sync, mn_list)

\* The last line of ProcessVote: the object takes the vote, and on success the
\* vote is entered into cmapVoteToObject.
ProcessVoteApply(g, vote, r) ==
    [ok |-> r.ok,
     g |-> [(IF r.invalid THEN AddInvalidVote(g, vote) ELSE g)
              EXCEPT !.mapObjects[vote.parent] = r.stored,
                     !.cmapVoteToObject = IF r.ok THEN CacheMapInsert(@, vote.hash, vote.parent) ELSE @]]

\* CGovernanceManager::ProcessVote with a vote for an unknown parent dropped.
ProcessVoteNoOrphan(g, vote, nNow, mn_list) ==
    IF CacheHasKey(g.cmapVoteToObject, vote.hash) \/ CacheHasKey(g.cmapInvalidVotes, vote.hash)
    THEN [ok |-> FALSE, g |-> g]
    ELSE IF vote.parent \notin DOMAIN g.mapObjects
    THEN [ok |-> FALSE, g |-> g]
    ELSE IF g.mapObjects[vote.parent].fCachedDelete \/ g.mapObjects[vote.parent].fExpired
    THEN [ok |-> FALSE, g |-> g]
    ELSE ProcessVoteApply(g, vote, ObjectProcessVote(g.mapObjects[vote.parent], vote, mn_list))

\* CGovernanceManager::ProcessVote
ProcessVote(g, vote, nNow, mn_list) ==
    IF CacheHasKey(g.cmapVoteToObject, vote.hash) \/ CacheHasKey(g.cmapInvalidVotes, vote.hash)
    THEN [ok |-> FALSE, g |-> g]
    ELSE IF vote.parent \notin DOMAIN g.mapObjects
    THEN [ok |-> FALSE,
          g |-> [g EXCEPT !.cmmapOrphanVotes =
                    CacheMultiMapInsert(@, vote.parent,
                        [vote |-> vote, expire |-> nNow + GOVERNANCE_ORPHAN_EXPIRATION_TIME])]]
    ELSE IF g.mapObjects[vote.parent].fCachedDelete \/ g.mapObjects[vote.parent].fExpired
    THEN [ok |-> FALSE, g |-> g]
    ELSE ProcessVoteApply(g, vote, ObjectProcessVote(g.mapObjects[vote.parent], vote, mn_list))

\* ProcessMessage, MNGOVERNANCEOBJECTVOTE, after ProcessVote returned r.
ProcessVoteDone(r, vote, sync, mn_list) ==
    IF r.ok THEN RelayVote(r.g, vote, sync, mn_list) ELSE r.g

\* CGovernanceManager::ProcessMessage, MNGOVERNANCEOBJECTVOTE
ProcessMessageVote(g, vote, nNow, sync, mn_list) ==
    IF sync = "initial" THEN g
    ELSE IF vote.hash \notin DOMAIN g.m_requested_hash_time THEN g
    ELSE ProcessVoteDone(ProcessVote(AcceptMessage(g, vote.hash), vote, nNow, mn_list),
                         vote, sync, mn_list)

\* MessageProcessingResult: m_error is the score of the MisbehavingError
\* (0: none), m_to_erase the inventory to erase (NoInv: none).
NoInv == [type |-> "none", hash |-> 0]
MessageProcessingResult(m_error, m_to_erase) ==
    [m_error |-> m_error, m_inventory |-> <<>>, m_to_erase |-> m_to_erase]

\* The result of a handler whose test of the hash leaves out the erased
\* objects.
ProcessMessageObjectResultErasedUnseen(g, govobj, fee, nNow, sync) ==
    IF sync = "initial" THEN MessageProcessingResult(0, NoInv)
    ELSE IF govobj.hash \in DOMAIN g.m_requested_hash_time
            /\ govobj.hash \notin DOMAIN g.mapObjects \cup DOMAIN g.mapPostponedObjects
            /\ IsValidLocally(govobj, fee, nNow) = "invalid"
    THEN MessageProcessingResult(20, [type |-> MSG_GOVERNANCE_OBJECT, hash |-> govobj.hash])
    ELSE MessageProcessingResult(0, [type |-> MSG_GOVERNANCE_OBJECT, hash |-> govobj.hash])

\* ProcessMessage, MNGOVERNANCEOBJECT: the result it returns.
ProcessMessageObjectResult(g, govobj, fee, nNow, sync) ==
    IF sync = "initial" THEN MessageProcessingResult(0, NoInv)
    ELSE IF govobj.hash \in DOMAIN g.m_requested_hash_time
            /\ govobj.hash \notin DOMAIN g.mapObjects \cup DOMAIN g.mapPostponedObjects
                                   \cup DOMAIN g.mapErasedGovernanceObjects
            /\ IsValidLocally(govobj, fee, nNow) = "invalid"
    THEN MessageProcessingResult(20, [type |-> MSG_GOVERNANCE_OBJECT, hash |-> govobj.hash])
    ELSE MessageProcessingResult(0, [type |-> MSG_GOVERNANCE_OBJECT, hash |-> govobj.hash])

\* CGovernanceManager::ProcessVote: the node penalty of the exception it
\* leaves (0: no exception, or a warning).
ProcessVotePenalty(g, vote, mn_list) ==
    IF CacheHasKey(g.cmapVoteToObject, vote.hash) THEN 0
    ELSE IF CacheHasKey(g.cmapInvalidVotes, vote.hash) THEN 20
    ELSE IF vote.parent \notin DOMAIN g.mapObjects THEN 0
    ELSE IF g.mapObjects[vote.parent].fCachedDelete \/ g.mapObjects[vote.parent].fExpired THEN 0
    ELSE IF ObjectProcessVote(g.mapObjects[vote.parent], vote, mn_list).invalid THEN 20
    ELSE 0

\* CGovernanceManager::ProcessVote: RequestGovernanceObject(pfrom, parent) is
\* called when the orphan cache took the vote as a new entry.
ProcessVoteRequestsParent(g, vote, nNow) ==
    /\ ~CacheHasKey(g.cmapVoteToObject, vote.hash)
    /\ ~CacheHasKey(g.cmapInvalidVotes, vote.hash)
    /\ vote.parent \notin DOMAIN g.mapObjects
    /\ ~\E i \in 1..Len(CachePrune(g.cmmapOrphanVotes)) :
            CachePrune(g.cmmapOrphanVotes)[i] =
                [key |-> vote.parent,
                 value |-> [vote |-> vote, expire |-> nNow + GOVERNANCE_ORPHAN_EXPIRATION_TIME]]

\* ProcessMessage, MNGOVERNANCEOBJECTVOTE: the result it returns.
ProcessMessageVoteResult(g, vote, nNow, sync, mn_list) ==
    IF sync = "initial" THEN MessageProcessingResult(0, NoInv)
    ELSE IF vote.hash \in DOMAIN g.m_requested_hash_time
            /\ ~ProcessVote(AcceptMessage(g, vote.hash), vote, nNow, mn_list).ok
            /\ ProcessVotePenalty(g, vote, mn_list) # 0
            /\ sync = "synced"
    THEN MessageProcessingResult(ProcessVotePenalty(g, vote, mn_list),
                                 [type |-> MSG_GOVERNANCE_OBJECT_VOTE, hash |-> vote.hash])
    ELSE MessageProcessingResult(0, [type |-> MSG_GOVERNANCE_OBJECT_VOTE, hash |-> vote.hash])

\* CGovernanceManager::SerializeObjectForHash: whether an object was written
\* to the stream, and which.
SerializeObjectForHash(g, nHash) ==
    IF nHash \in DOMAIN g.mapObjects THEN [ok |-> TRUE, obj |-> g.mapObjects[nHash].obj]
    ELSE IF nHash \in DOMAIN g.mapPostponedObjects THEN [ok |-> TRUE, obj |-> g.mapPostponedObjects[nHash]]
    ELSE [ok |-> FALSE]

\* CGovernanceManager::SyncObjects: the result; fulfilled tells whether the
\* peer has asked for the list before.
SyncObjects(g, sync, fulfilled) ==
    IF sync # "synced" THEN MessageProcessingResult(0, NoInv)
    ELSE IF fulfilled THEN MessageProcessingResult(20, NoInv)
    ELSE [MessageProcessingResult(0, NoInv) EXCEPT !.m_inventory =
            [i \in DOMAIN SelectSeq(KeysInOrder(g.mapObjects),
                                    LAMBDA h : ~(g.mapObjects[h].fCachedDelete \/ g.mapObjects[h].fExpired)) |->
                [type |-> MSG_GOVERNANCE_OBJECT,
                 hash |-> SelectSeq(KeysInOrder(g.mapObjects),
                                    LAMBDA h : ~(g.mapObjects[h].fCachedDelete \/ g.mapObjects[h].fExpired))[i]]]]

\* CGovernanceManager::SyncSingleObjVotes: the hashes of the votes in the
\* inventory of the result; filter holds the votes the peer has.
SyncSingleObjVotes(g, nProp, filter, sync, mn_list) ==
    IF sync # "synced" THEN {}
    ELSE IF nProp \notin DOMAIN g.mapObjects THEN {}
    ELSE IF g.mapObjects[nProp].fCachedDelete \/ g.mapObjects[nProp].fExpired THEN {}
    ELSE {h \in g.mapObjects[nProp].fileVotes : h \notin filter /\ VoteOf(h).outpoint \in mn_list}

\* CGovernanceManager::ConfirmInventoryRequest: the value it returns.
ConfirmInventoryRequestReturns(g, inv, sync) ==
    IF sync = "initial" THEN FALSE
    ELSE IF inv.type = MSG_GOVERNANCE_OBJECT
    THEN inv.hash \notin DOMAIN g.mapObjects \cup DOMAIN g.mapPostponedObjects
    ELSE IF inv.type = MSG_GOVERNANCE_OBJECT_VOTE
    THEN ~CacheHasKey(g.cmapVoteToObject, inv.hash)
    ELSE FALSE

\* CGovernanceManager::ConfirmInventoryRequest: the manager it leaves.
ConfirmInventoryRequest(g, inv, nNow, sync) ==
    IF ~ConfirmInventoryRequestReturns(g, inv, sync) THEN g
    ELSE [g EXCEPT !.m_requested_hash_time = MapInsert(@, inv.hash, nNow + RELIABLE_PROPAGATION_TIME)]

\* CheckAndRemove with the test of the deletion delay left out.
RemovableNoDelay(stored, nNow) == stored.fCachedDelete \/ stored.fExpired

\* CheckAndRemove: the object is flagged and the deletion delay has passed.
Removable(stored, nNow) ==
    /\ stored.fCachedDelete \/ stored.fExpired
    /\ nNow - stored.nDeletionTime >= GOVERNANCE_DELETION_DELAY

\* CheckAndRemove, first loop: ClearMasternodeVotes on the dirty objects.
ClearDirty(g, vecDirtyHashes, mn_list) ==
    [g EXCEPT !.mapObjects =
        [h \in DOMAIN @ |-> IF h \in vecDirtyHashes THEN ClearMasternodeVotes(@[h], mn_list) ELSE @[h]]]

\* CheckAndRemove, second loop and the two sweeps that follow it.
RemoveAndSweep(g, nNow) ==
    [g EXCEPT
        !.mapObjects =
            [h \in {k \in DOMAIN @ : ~Removable(@[k], nNow)} |->
                IF @[h].obj.type = "PROPOSAL" /\ ~Validate(@[h].obj, nNow)
                THEN PrepareDeletion(@[h], nNow) ELSE @[h]],
        !.cmapVoteToObject =
            SelectSeq(@, LAMBDA e : ~(e.value \in DOMAIN g.mapObjects
                                      /\ Removable(g.mapObjects[e.value], nNow))),
        !.mapErasedGovernanceObjects =
            [h \in {k \in DOMAIN @ : ~(@[k] < nNow)} \cup
                   {k \in DOMAIN g.mapObjects : Removable(g.mapObjects[k], nNow)} |->
                IF h \in DOMAIN @ THEN @[h] ELSE INT64_MAX_TIME],
        !.m_requested_hash_time = [h \in {k \in DOMAIN @ : ~(@[k] < nNow)} |-> @[h]]]

\* CGovernanceManager::CheckAndRemove
CheckAndRemove(g, vecDirtyHashes, nNow, sync, mn_list) ==
    IF sync = "initial" THEN g
    ELSE RemoveAndSweep(ClearDirty(g, vecDirtyHashes, mn_list), nNow)

\* CGovernanceManager::CleanOrphanObjects
CleanOrphanObjects(g, nNow) ==
    [g EXCEPT !.cmmapOrphanVotes = SelectSeq(@, LAMBDA e : ~(e.value.expire < nNow))]

\* The votes RemoveInvalidVotes evicts: those of masternodes that left the list.
RemovedVotes(g, mn_list) ==
    {h \in UNION {g.mapObjects[k].fileVotes : k \in DOMAIN g.mapObjects} :
        VoteOf(h).outpoint \in g.lastMNListForVotingKeys \ mn_list}

\* CGovernanceManager::RemoveInvalidVotes
RemoveInvalidVotes(g, sync, mn_list) ==
    IF sync # "synced" THEN g
    ELSE [g EXCEPT
            !.mapObjects = [k \in DOMAIN @ |->
                [@[k] EXCEPT !.fileVotes = @ \ RemovedVotes(g, mn_list)]],
            !.cmapVoteToObject = SelectSeq(@, LAMBDA e : e.key \notin RemovedVotes(g, mn_list)),
            !.cmapInvalidVotes = SelectSeq(@, LAMBDA e : e.key \notin RemovedVotes(g, mn_list)),
            !.cmmapOrphanVotes = SelectSeq(@, LAMBDA e : e.key \notin RemovedVotes(g, mn_list)),
            !.m_requested_hash_time = [h \in DOMAIN @ \ RemovedVotes(g, mn_list) |-> @[h]],
            !.lastMNListForVotingKeys = mn_list]

\* One entry of the loop, with an erase that only follows an addition.
CheckPostponedObjectKeeping(g, govobj, fee, nNow, sync, mn_list) ==
    IF fee = "valid" /\ Validate(govobj, nNow)
    THEN [AddGovernanceObject(g, govobj, fee, nNow, sync, mn_list)
            EXCEPT !.mapPostponedObjects = MapErase(@, govobj.hash)]
    ELSE g

\* One entry of the loop of CheckPostponedObjects.
CheckPostponedObject(g, govobj, fee, nNow, sync, mn_list) ==
    IF fee = "missing_confirmations" THEN g
    ELSE [(IF fee = "valid" /\ Validate(govobj, nNow)
           THEN AddGovernanceObject(g, govobj, fee, nNow, sync, mn_list) ELSE g)
            EXCEPT !.mapPostponedObjects = MapErase(@, govobj.hash)]

RECURSIVE CheckPostponedLoop(_, _, _, _, _, _)
CheckPostponedLoop(g, hashes, fee, nNow, sync, mn_list) ==
    IF hashes = <<>> THEN g
    ELSE CheckPostponedLoop(
            CheckPostponedObject(g, g.mapPostponedObjects[Head(hashes)], fee[Head(hashes)],
                                 nNow, sync, mn_list),
            Tail(hashes), fee, nNow, sync, mn_list)

\* CGovernanceManager::CheckPostponedObjects
CheckPostponedObjects(g, fee, nNow, sync, mn_list) ==
    IF sync # "synced" THEN g
    ELSE CheckPostponedLoop(g, KeysInOrder(g.mapPostponedObjects), fee, nNow, sync, mn_list)

\* CGovernanceManager::UpdatedBlockTip
UpdatedBlockTipRun(g, enforced, fee, nNow, sync, mn_list) ==
    CheckPostponedObjects(IF enforced THEN RemoveInvalidVotes(g, sync, mn_list) ELSE g,
                          fee, nNow, sync, mn_list)

InitGov ==
    /\ InitIndex
    /\ llabs_min_neg = TRUE
    /\ calc = NoCalc
    /\ GovIdle
    /\ HandlersIdle
    /\ RateIdle

\* The masternode sync advances.
SyncAdvance ==
    /\ mn_sync # "synced"
    /\ mn_sync' = IF mn_sync = "initial" THEN "blockchain" ELSE "synced"
    /\ UNCHANGED <<gov, now, tip_mn_list, nonGovVars>>

\* The clock advances.
Tick ==
    /\ now < StartTime + MaxTicks * TickMinutes
    /\ now' = now + TickMinutes
    /\ UNCHANGED <<gov, mn_sync, tip_mn_list, nonGovVars>>

\* A block is connected in which a masternode leaves the list.
ConnectBlock ==
    /\ \E outpoint \in tip_mn_list : tip_mn_list' = tip_mn_list \ {outpoint}
    /\ UNCHANGED <<gov, now, mn_sync, nonGovVars>>

\* A peer announces an inventory.
InvReceived ==
    /\ Cardinality(DOMAIN gov.m_requested_hash_time) < MaxRequested
    /\ \E inv \in InvUniverse : gov' = ConfirmInventoryRequest(gov, inv, now, mn_sync)
    /\ UNCHANGED <<now, mn_sync, tip_mn_list, nonGovVars>>

\* A peer sends GOVOBJ.
GovObjReceived ==
    /\ Len(gov.m_relay_invs) < MaxRelayQueue
    /\ \E govobj \in ObjectUniverse, fee \in ChainAnswers :
          gov' = ProcessMessageObject(gov, govobj, fee, now, mn_sync, tip_mn_list)
    /\ UNCHANGED <<now, mn_sync, tip_mn_list, nonGovVars>>

\* A peer sends GOVVOTE.
GovVoteReceived ==
    /\ Len(gov.m_relay_invs) < MaxRelayQueue
    /\ \E vote \in VoteUniverse : gov' = ProcessMessageVote(gov, vote, now, mn_sync, tip_mn_list)
    /\ UNCHANGED <<now, mn_sync, tip_mn_list, nonGovVars>>

\* The validation interface reports the new tip.
UpdatedBlockTip ==
    /\ Len(gov.m_relay_invs) < MaxRelayQueue
    /\ \E enforced \in BOOLEAN, fee \in [DOMAIN gov.mapPostponedObjects -> ChainAnswers] :
          gov' = UpdatedBlockTipRun(gov, enforced, fee, now, mn_sync, tip_mn_list)
    /\ UNCHANGED <<now, mn_sync, tip_mn_list, nonGovVars>>

\* The five-minute job of Schedule; the masternode meta manager hands
\* CheckAndRemove the hashes it flagged.
Maintenance ==
    /\ mn_sync = "synced"
    /\ \E vecDirtyHashes \in SUBSET {o.hash : o \in ObjectUniverse} :
          gov' = CheckAndRemove(CleanOrphanObjects(gov, now), vecDirtyHashes, now, mn_sync, tip_mn_list)
    /\ UNCHANGED <<now, mn_sync, tip_mn_list, nonGovVars>>

\* The relay job of Schedule.
RelayJob ==
    /\ gov.m_relay_invs # <<>>
    /\ gov' = [gov EXCEPT !.m_relay_invs = <<>>]
    /\ UNCHANGED <<now, mn_sync, tip_mn_list, nonGovVars>>

NextGov ==
    \/ SyncAdvance
    \/ Tick
    \/ ConnectBlock
    \/ InvReceived
    \/ GovObjReceived
    \/ GovVoteReceived
    \/ UpdatedBlockTip
    \/ Maintenance
    \/ RelayJob

SpecGov == InitGov /\ [][NextGov]_vars

(***************************************************************************)
(* Message handler threads inside CGovernanceManager::AcceptMessage.       *)
(* ProcessMessage runs on several handler threads; each call of            *)
(* AcceptMessage takes the mutex cs, looks the hash up in                  *)
(* m_requested_hash_time, erases the entry it found and returns.           *)
(***************************************************************************)
Handlers == {1, 2}
MaxConfirms == 2
\* The hashes peers announce and send in this specification.
AcceptHashes == {1, 11}
AcceptInvs ==
    {inv \in InvUniverse : inv.hash \in AcceptHashes} \cup {[type |-> MSG_TX, hash |-> 1]}

\* LOCK(cs) without the mutual exclusion.
CsFreeNoMutex(holder) == TRUE
\* LOCK(cs): the mutex can be taken when nobody holds it.
CsFree(holder) == holder = 0

IdleThread == [pc |-> "idle", hash |-> 0, found |-> FALSE, ret |-> FALSE]
NoTally == [inserted |-> 0, confirmed |-> 0, accepted |-> 0]

InitAccept ==
    /\ InitIndex
    /\ llabs_min_neg = TRUE
    /\ calc = NoCalc
    /\ gov = NewGovernanceManager
    /\ now = StartTime
    /\ mn_sync = "synced"
    /\ tip_mn_list = MasternodeOutpoints
    /\ threads = [t \in Handlers |-> IdleThread]
    /\ cs = 0
    /\ tally = [h \in AcceptHashes |-> NoTally]
    /\ RateIdle

\* ConfirmInventoryRequest on the network thread, its body under LOCK(cs).
ConfirmRequest ==
    /\ CsFree(cs)
    /\ \E inv \in AcceptInvs :
          /\ tally[inv.hash].confirmed < MaxConfirms
          /\ gov' = ConfirmInventoryRequest(gov, inv, now, mn_sync)
          /\ tally' = [tally EXCEPT ![inv.hash] = [@ EXCEPT
                !.confirmed = IF ConfirmInventoryRequestReturns(gov, inv, mn_sync) THEN @ + 1 ELSE @,
                !.inserted = IF inv.hash \in DOMAIN gov'.m_requested_hash_time
                                /\ inv.hash \notin DOMAIN gov.m_requested_hash_time
                             THEN @ + 1 ELSE @]]
    /\ UNCHANGED <<now, mn_sync, tip_mn_list, threads, cs, nonAcceptVars>>

\* A handler thread receives GOVOBJ or GOVVOTE with hash nHash and calls
\* AcceptMessage(nHash).
AcceptCall(t) ==
    /\ threads[t].pc = "idle"
    /\ \E nHash \in AcceptHashes :
          threads' = [threads EXCEPT ![t] = [pc |-> "lock", hash |-> nHash, found |-> FALSE, ret |-> FALSE]]
    /\ UNCHANGED <<cs, tally, govVars, nonAcceptVars>>

\* AcceptMessage: LOCK(cs).
AcceptLock(t) ==
    /\ threads[t].pc = "lock"
    /\ CsFree(cs)
    /\ cs' = t
    /\ threads' = [threads EXCEPT ![t].pc = "find"]
    /\ UNCHANGED <<tally, govVars, nonAcceptVars>>

\* AcceptMessage: it = m_requested_hash_time.find(nHash).
AcceptFind(t) ==
    /\ threads[t].pc = "find"
    /\ threads' = [threads EXCEPT ![t] = [@ EXCEPT
          !.found = threads[t].hash \in DOMAIN gov.m_requested_hash_time,
          !.pc = IF threads[t].hash \in DOMAIN gov.m_requested_hash_time THEN "erase" ELSE "return"]]
    /\ UNCHANGED <<cs, tally, govVars, nonAcceptVars>>

\* AcceptMessage: m_requested_hash_time.erase(it); the call will return true.
AcceptErase(t) ==
    /\ threads[t].pc = "erase"
    /\ gov' = [gov EXCEPT !.m_requested_hash_time = MapErase(@, threads[t].hash)]
    /\ threads' = [threads EXCEPT ![t].pc = "return"]
    /\ UNCHANGED <<cs, tally, now, mn_sync, tip_mn_list, nonAcceptVars>>

\* AcceptMessage returns (found or not) and the lock is released.
AcceptReturn(t) ==
    /\ threads[t].pc = "return"
    /\ threads' = [threads EXCEPT ![t] = [@ EXCEPT !.pc = "idle", !.ret = threads[t].found]]
    /\ tally' = [tally EXCEPT ![threads[t].hash].accepted = IF threads[t].found THEN @ + 1 ELSE @]
    /\ cs' = IF cs = t THEN 0 ELSE cs
    /\ UNCHANGED <<govVars, nonAcceptVars>>

\* The clock advances while no thread holds cs.
AcceptTick ==
    /\ CsFree(cs)
    /\ now < StartTime + MaxTicks * TickMinutes
    /\ now' = now + TickMinutes
    /\ UNCHANGED <<gov, mn_sync, tip_mn_list, handlerVars, nonAcceptVars>>

\* CheckAndRemove under LOCK2(cs_main, cs): expired requests are swept.
AcceptSweep ==
    /\ CsFree(cs)
    /\ gov' = CheckAndRemove(gov, {}, now, mn_sync, tip_mn_list)
    /\ UNCHANGED <<now, mn_sync, tip_mn_list, handlerVars, nonAcceptVars>>

NextAccept ==
    \/ ConfirmRequest
    \/ \E t \in Handlers : AcceptCall(t)
    \/ \E t \in Handlers : AcceptLock(t)
    \/ \E t \in Handlers : AcceptFind(t)
    \/ \E t \in Handlers : AcceptErase(t)
    \/ \E t \in Handlers : AcceptReturn(t)
    \/ AcceptTick
    \/ AcceptSweep

SpecAccept == InitAccept /\ [][NextAccept]_vars

(***************************************************************************)
(* The manager with its public entry points: besides the peer messages,    *)
(* AddGovernanceObject and AddPostponedObject are called directly when     *)
(* the node submits an object of its own.                                  *)
(***************************************************************************)
InitErase ==
    /\ InitIndex
    /\ llabs_min_neg = TRUE
    /\ calc = NoCalc
    /\ gov = NewGovernanceManager
    /\ now = StartTime
    /\ mn_sync = "synced"
    /\ tip_mn_list = MasternodeOutpoints
    /\ HandlersIdle
    /\ RateIdle

\* The node submits an object: AddGovernanceObject(govobj).
AddObjectCall ==
    /\ Len(gov.m_relay_invs) < MaxRelayQueue
    /\ \E govobj \in ObjectUniverse, fee \in ChainAnswers :
          gov' = AddGovernanceObject(gov, govobj, fee, now, mn_sync, tip_mn_list)
    /\ UNCHANGED <<now, mn_sync, tip_mn_list, nonGovVars>>

\* The node submits an object whose fee lacks confirmations:
\* AddPostponedObject(govobj).
AddPostponedCall ==
    /\ \E govobj \in ObjectUniverse : gov' = AddPostponedObjectInternal(gov, govobj)
    /\ UNCHANGED <<now, mn_sync, tip_mn_list, nonGovVars>>

NextErase ==
    \/ Tick
    \/ InvReceived
    \/ GovObjReceived
    \/ UpdatedBlockTip
    \/ Maintenance
    \/ RelayJob
    \/ AddObjectCall
    \/ AddPostponedCall

SpecErase == InitErase /\ [][NextErase]_vars

(***************************************************************************)
(* The inbound handlers with what they return: every GOVOBJ and GOVVOTE    *)
(* handled is kept in glast together with the manager before and after.    *)
(***************************************************************************)
\* The votes peers send: the votes of m1 in VoteUniverse and a vote of m2 on
\* proposal 1 with a bad signature.
MsgVoteUniverse == {v \in VoteUniverse : v.outpoint = "m1"} \cup {GovVote(14, 1, "m2", FALSE)}
MsgInvUniverse ==
    {[type |-> MSG_GOVERNANCE_OBJECT, hash |-> o.hash] : o \in ObjectUniverse} \cup
    {[type |-> MSG_GOVERNANCE_OBJECT_VOTE, hash |-> v.hash] : v \in MsgVoteUniverse}

InitMsg ==
    /\ InitIndex
    /\ llabs_min_neg = TRUE
    /\ calc = NoCalc
    /\ gov = NewGovernanceManager
    /\ now = StartTime
    /\ mn_sync \in {"blockchain", "synced"}
    /\ tip_mn_list = MasternodeOutpoints
    /\ HandlersIdle
    /\ RateIdle

\* A peer announces an inventory.
MsgInv ==
    /\ Cardinality(DOMAIN gov.m_requested_hash_time) < MaxRequested
    /\ \E inv \in MsgInvUniverse : gov' = ConfirmInventoryRequest(gov, inv, now, mn_sync)
    /\ glast' = NoMsg
    /\ UNCHANGED <<now, mn_sync, tip_mn_list, nonMsgVars>>

\* A peer sends GOVOBJ.
MsgObject ==
    /\ Len(gov.m_relay_invs) < MaxRelayQueue
    /\ \E govobj \in ObjectUniverse, fee \in ChainAnswers :
          /\ gov' = ProcessMessageObject(gov, govobj, fee, now, mn_sync, tip_mn_list)
          /\ glast' = [op |-> "GOVOBJ", msg |-> govobj, fee |-> fee, before |-> gov, after |-> gov',
                       ret |-> ProcessMessageObjectResult(gov, govobj, fee, now, mn_sync),
                       request |-> FALSE]
    /\ UNCHANGED <<now, mn_sync, tip_mn_list, nonMsgVars>>

\* A peer sends GOVVOTE.
MsgVote ==
    /\ Len(gov.m_relay_invs) < MaxRelayQueue
    /\ \E vote \in MsgVoteUniverse :
          /\ gov' = ProcessMessageVote(gov, vote, now, mn_sync, tip_mn_list)
          /\ glast' = [op |-> "GOVVOTE", msg |-> vote, fee |-> "valid", before |-> gov, after |-> gov',
                       ret |-> ProcessMessageVoteResult(gov, vote, now, mn_sync, tip_mn_list),
                       request |-> /\ mn_sync # "initial"
                                   /\ vote.hash \in DOMAIN gov.m_requested_hash_time
                                   /\ ProcessVoteRequestsParent(gov, vote, now)]
    /\ UNCHANGED <<now, mn_sync, tip_mn_list, nonMsgVars>>

\* The clock advances.
MsgTick ==
    /\ now < StartTime + MaxTicks * TickMinutes
    /\ now' = now + TickMinutes
    /\ glast' = NoMsg
    /\ UNCHANGED <<gov, mn_sync, tip_mn_list, nonMsgVars>>

\* The five-minute job of Schedule.
MsgMaintenance ==
    /\ mn_sync = "synced"
    /\ gov' = CheckAndRemove(CleanOrphanObjects(gov, now), {}, now, mn_sync, tip_mn_list)
    /\ glast' = NoMsg
    /\ UNCHANGED <<now, mn_sync, tip_mn_list, nonMsgVars>>

\* The relay job of Schedule.
MsgRelayJob ==
    /\ gov.m_relay_invs # <<>>
    /\ gov' = [gov EXCEPT !.m_relay_invs = <<>>]
    /\ glast' = NoMsg
    /\ UNCHANGED <<now, mn_sync, tip_mn_list, nonMsgVars>>

NextMsg ==
    \/ MsgInv
    \/ MsgObject
    \/ MsgVote
    \/ MsgTick
    \/ MsgMaintenance
    \/ MsgRelayJob

SpecMsg == InitMsg /\ [][NextMsg]_vars

(***************************************************************************)
(* The relay plane: RelayObject and RelayVote enqueue into m_relay_invs    *)
(* under cs_relay; the relay job of Schedule locks cs_relay, hands every   *)
(* entry to the peer manager and clears the list.                          *)
(***************************************************************************)
\* LOCK(cs_relay) without the mutex: the caller never waits.
CsRelayFreeNoMutex(holder) == TRUE
\* LOCK(cs_relay): the caller goes on when nobody holds the mutex.
CsRelayFree(holder) == holder = 0

\* The inventories a handler appended to m_relay_invs.
Enqueued(g, after) == SubSeq(after.m_relay_invs, Len(g.m_relay_invs) + 1, Len(after.m_relay_invs))

InitRelay ==
    /\ InitIndex
    /\ llabs_min_neg = TRUE
    /\ calc = NoCalc
    /\ gov = NewGovernanceManager
    /\ now = StartTime
    /\ mn_sync = "synced"
    /\ tip_mn_list = MasternodeOutpoints
    /\ HandlersIdle
    /\ RateIdle

\* A peer announces an inventory.
RelayAnnounce ==
    /\ Cardinality(DOMAIN gov.m_requested_hash_time) < MaxRequested
    /\ \E inv \in InvUniverse : gov' = ConfirmInventoryRequest(gov, inv, now, mn_sync)
    /\ UNCHANGED <<now, mn_sync, tip_mn_list, relay, locks, props, asked, nonPlaneVars>>

\* A peer sends GOVOBJ; RelayObject and RelayVote take cs_relay.
RelayEnqueueObject ==
    /\ CsRelayFree(relay.holder)
    /\ \E govobj \in ObjectUniverse, fee \in ChainAnswers :
          gov' = ProcessMessageObject(gov, govobj, fee, now, mn_sync, tip_mn_list)
    /\ relay' = [relay EXCEPT !.enq = @ \o Enqueued(gov, gov')]
    /\ UNCHANGED <<now, mn_sync, tip_mn_list, locks, props, asked, nonPlaneVars>>

\* A peer sends GOVVOTE; RelayVote takes cs_relay.
RelayEnqueueVote ==
    /\ CsRelayFree(relay.holder)
    /\ \E vote \in VoteUniverse : gov' = ProcessMessageVote(gov, vote, now, mn_sync, tip_mn_list)
    /\ relay' = [relay EXCEPT !.enq = @ \o Enqueued(gov, gov')]
    /\ UNCHANGED <<now, mn_sync, tip_mn_list, locks, props, asked, nonPlaneVars>>

\* The relay job starts: LOCK(cs_relay).
RelayJobLock ==
    /\ relay.pc = "idle"
    /\ CsRelayFree(relay.holder)
    /\ relay' = [relay EXCEPT !.pc = "loop", !.i = 1, !.holder = 1]
    /\ UNCHANGED <<gov, now, mn_sync, tip_mn_list, locks, props, asked, nonPlaneVars>>

\* The relay job: peerman.RelayInv(inv) for the next entry.
RelayJobHand ==
    /\ relay.pc = "loop"
    /\ relay.i <= Len(gov.m_relay_invs)
    /\ relay' = [relay EXCEPT !.out = Append(@, gov.m_relay_invs[relay.i]), !.i = @ + 1]
    /\ UNCHANGED <<gov, now, mn_sync, tip_mn_list, locks, props, asked, nonPlaneVars>>

\* The relay job: the loop has reached the end of the list.
RelayJobEnd ==
    /\ relay.pc = "loop"
    /\ relay.i > Len(gov.m_relay_invs)
    /\ relay' = [relay EXCEPT !.pc = "clear"]
    /\ UNCHANGED <<gov, now, mn_sync, tip_mn_list, locks, props, asked, nonPlaneVars>>

\* The relay job: m_relay_invs.clear() and the release of cs_relay.
RelayJobClear ==
    /\ relay.pc = "clear"
    /\ gov' = [gov EXCEPT !.m_relay_invs = <<>>]
    /\ relay' = [relay EXCEPT !.pc = "idle", !.i = 1, !.holder = 0]
    /\ UNCHANGED <<now, mn_sync, tip_mn_list, locks, props, asked, nonPlaneVars>>

NextRelay ==
    \/ RelayAnnounce
    \/ RelayEnqueueObject
    \/ RelayEnqueueVote
    \/ RelayJobLock
    \/ RelayJobHand
    \/ RelayJobEnd
    \/ RelayJobClear

SpecRelay == InitRelay /\ [][NextRelay]_vars

\* The scheduler runs the relay job again and again and lets it finish.
SpecRelayFair ==
    /\ SpecRelay
    /\ WF_vars(RelayJobLock)
    /\ WF_vars(RelayJobHand)
    /\ WF_vars(RelayJobEnd)
    /\ WF_vars(RelayJobClear)

(***************************************************************************)
(* The mutexes cs_main, cs and cs_relay: each manager operation as the     *)
(* sequence of its LOCK and scope-exit steps, run by concurrent threads.   *)
(* All three are recursive mutexes; LOCK2(a, b) locks a, then b.           *)
(***************************************************************************)
Lock(mutex) == [a |-> "lock", m |-> mutex]
Unlock(mutex) == [a |-> "unlock", m |-> mutex]

\* AddGovernanceObject: LOCK2(cs_main, cs); RelayObject and, through
\* CheckOrphanVotes, RelayVote take cs_relay.
AddGovernanceObjectLocks ==
    <<Lock("cs_main"), Lock("cs"), Lock("cs_relay"), Unlock("cs_relay"),
      Lock("cs_relay"), Unlock("cs_relay"), Unlock("cs"), Unlock("cs_main")>>

\* ProcessMessage, MNGOVERNANCEOBJECT: AcceptMessage locks cs; then
\* LOCK2(cs_main, cs) and AddGovernanceObject.
ProcessMessageLocks ==
    <<Lock("cs"), Unlock("cs"), Lock("cs_main"), Lock("cs")>> \o AddGovernanceObjectLocks
        \o <<Unlock("cs"), Unlock("cs_main")>>

\* CheckAndRemove: LOCK2(cs_main, cs).
CheckAndRemoveLocks == <<Lock("cs_main"), Lock("cs"), Unlock("cs"), Unlock("cs_main")>>

\* CheckPostponedObjects on a synced node: LOCK(cs_main), and
\* AddGovernanceObject for an entry that became valid.
CheckPostponedObjectsLocks == <<Lock("cs_main")>> \o AddGovernanceObjectLocks \o <<Unlock("cs_main")>>

\* UpdatedBlockTip: LOCK(cs), then CheckPostponedObjects.
UpdatedBlockTipLocks == <<Lock("cs")>> \o CheckPostponedObjectsLocks \o <<Unlock("cs")>>

\* The relay job: LOCK(cs_relay).
RelayJobLocks == <<Lock("cs_relay"), Unlock("cs_relay")>>

ManagerOperations ==
    {[name |-> "ProcessMessage", code |-> ProcessMessageLocks],
     [name |-> "AddGovernanceObject", code |-> AddGovernanceObjectLocks],
     [name |-> "CheckAndRemove", code |-> CheckAndRemoveLocks],
     [name |-> "UpdatedBlockTip", code |-> UpdatedBlockTipLocks],
     [name |-> "RelayJob", code |-> RelayJobLocks]}

\* The thread holds the mutex.
Holds(t, mutex) == \E i \in 1..Len(locks[t].held) : locks[t].held[i] = mutex
\* The next step of the thread is a LOCK of a mutex another thread holds.
WaitsFor(t, mutex) ==
    /\ locks[t].pc <= Len(locks[t].code)
    /\ locks[t].code[locks[t].pc] = Lock(mutex)
    /\ \E u \in LockThreads \ {t} : Holds(u, mutex)

InitLocks ==
    /\ InitIndex
    /\ llabs_min_neg = TRUE
    /\ calc = NoCalc
    /\ GovIdle
    /\ HandlersIdle
    /\ RateIdle

\* A thread enters a manager operation.
LocksCall(t) ==
    /\ locks[t] = NoOperation
    /\ \E operation \in ManagerOperations :
          locks' = [locks EXCEPT ![t] = [name |-> operation.name, code |-> operation.code,
                                        pc |-> 1, held |-> <<>>]]
    /\ UNCHANGED <<relay, props, asked, govVars, nonPlaneVars>>

\* A thread takes its next LOCK, waiting while another thread holds the mutex.
LocksAcquire(t) ==
    /\ locks[t].pc <= Len(locks[t].code)
    /\ locks[t].code[locks[t].pc].a = "lock"
    /\ ~WaitsFor(t, locks[t].code[locks[t].pc].m)
    /\ locks' = [locks EXCEPT ![t].held = Append(@, locks[t].code[locks[t].pc].m),
                              ![t].pc = @ + 1]
    /\ UNCHANGED <<relay, props, asked, govVars, nonPlaneVars>>

\* A thread leaves the scope of its innermost LOCK; after the last one the
\* operation returns.
LocksRelease(t) ==
    /\ locks[t].pc <= Len(locks[t].code)
    /\ locks[t].code[locks[t].pc].a = "unlock"
    /\ locks' = [locks EXCEPT ![t] =
                    IF locks[t].pc = Len(locks[t].code) THEN NoOperation
                    ELSE [@ EXCEPT !.held = SubSeq(@, 1, Len(@) - 1), !.pc = @ + 1]]
    /\ UNCHANGED <<relay, props, asked, govVars, nonPlaneVars>>

NextLocks == \E t \in LockThreads : LocksCall(t) \/ LocksAcquire(t) \/ LocksRelease(t)

SpecLocks == InitLocks /\ [][NextLocks]_vars

(***************************************************************************)
(* The masternode rate check of triggers: MasternodeRateCheck,             *)
(* MasternodeRateUpdate and the rate buffer.  Times are in minutes.        *)
(***************************************************************************)
\* Params().GetConsensus(): nSuperblockCycle * nPowTargetSpacing.
nSuperblockCycleSeconds == 60
MAX_TIME_FUTURE_DEVIATION == 60
\* Capacity of the rate buffer.
RATE_BUFFER_SIZE == 5
MaxAdmitted == 5

Trigger(outpoint, nTime) == [type |-> "TRIGGER", outpoint |-> outpoint, nTime |-> nTime]
\* Creation times of the triggers peers send: too old, oldest allowed, three
\* within one cycle, too far in the future.
TriggerTimes ==
    {StartTime - 121, StartTime - 120, StartTime - 50, StartTime - 30, StartTime, StartTime + 61}
TriggerUniverse == {Trigger(o, t) : o \in MasternodeOutpoints, t \in TriggerTimes}

SeqMax(seq) == CHOOSE x \in {seq[i] : i \in DOMAIN seq} : \A i \in DOMAIN seq : seq[i] <= x
SeqMin(seq) == CHOOSE x \in {seq[i] : i \in DOMAIN seq} : \A i \in DOMAIN seq : x <= seq[i]

\* Rate buffer: add_timestamp (the oldest entry goes when the ring is full).
AddTimestamp(buffer, nTimestamp) ==
    IF Len(buffer) = RATE_BUFFER_SIZE THEN Append(Tail(buffer), nTimestamp)
    ELSE Append(buffer, nTimestamp)
\* Rate buffer: rate(), a quotient num / den (den = 0: a division by zero).
GetRate(buffer) ==
    IF Len(buffer) < 2 THEN [num |-> 0, den |-> 1]
    ELSE [num |-> Len(buffer) - 1, den |-> SeqMax(buffer) - SeqMin(buffer)]
\* dMaxRate = 2 * 1.1 / double(nSuperblockCycleSeconds)
dMaxRate == [num |-> 22, den |-> 10 * nSuperblockCycleSeconds]
\* dRate < dMaxRate on doubles; x / 0.0 is +infinity for x > 0.
RateLess(a, b) == a.den # 0 /\ a.num * b.den < b.num * a.den

last_object_rec(fStatusOK) == [triggerBuffer |-> <<>>, fStatusOK |-> fStatusOK]

\* CGovernanceManager::MasternodeRateUpdate
MasternodeRateUpdate(map, govobj) ==
    IF govobj.type # "TRIGGER" THEN map
    ELSE [o \in DOMAIN map \cup {govobj.outpoint} |->
            IF o # govobj.outpoint THEN map[o]
            ELSE [triggerBuffer |->
                      AddTimestamp(IF o \in DOMAIN map THEN map[o].triggerBuffer
                                   ELSE last_object_rec(TRUE).triggerBuffer, govobj.nTime),
                  fStatusOK |-> TRUE]]

RateResult(ok, bypassed, map) == [ok |-> ok, fRateCheckBypassed |-> bypassed, map |-> map]

\* MasternodeRateCheck adding the timestamp to the stored buffer, not to a copy.
MasternodeRateCheckStoring(map, govobj, fUpdateFailStatus, fForce, nNow, sync, fRateChecksEnabled) ==
    IF sync # "synced" \/ ~fRateChecksEnabled THEN RateResult(TRUE, FALSE, map)
    ELSE IF govobj.type # "TRIGGER" THEN RateResult(TRUE, FALSE, map)
    ELSE IF govobj.nTime < nNow - 2 * nSuperblockCycleSeconds THEN RateResult(FALSE, FALSE, map)
    ELSE IF govobj.nTime > nNow + MAX_TIME_FUTURE_DEVIATION THEN RateResult(FALSE, FALSE, map)
    ELSE IF govobj.outpoint \notin DOMAIN map THEN RateResult(TRUE, FALSE, map)
    ELSE IF map[govobj.outpoint].fStatusOK /\ ~fForce THEN RateResult(TRUE, TRUE, map)
    ELSE IF RateLess(GetRate(AddTimestamp(map[govobj.outpoint].triggerBuffer, govobj.nTime)), dMaxRate)
    THEN RateResult(TRUE, FALSE,
            [map EXCEPT ![govobj.outpoint].triggerBuffer = AddTimestamp(@, govobj.nTime)])
    ELSE RateResult(FALSE, FALSE,
            IF fUpdateFailStatus THEN [map EXCEPT ![govobj.outpoint].fStatusOK = FALSE] ELSE map)

\* CGovernanceManager::MasternodeRateCheck
MasternodeRateCheck(map, govobj, fUpdateFailStatus, fForce, nNow, sync, fRateChecksEnabled) ==
    IF sync # "synced" \/ ~fRateChecksEnabled THEN RateResult(TRUE, FALSE, map)
    ELSE IF govobj.type # "TRIGGER" THEN RateResult(TRUE, FALSE, map)
    ELSE IF govobj.nTime < nNow - 2 * nSuperblockCycleSeconds THEN RateResult(FALSE, FALSE, map)
    ELSE IF govobj.nTime > nNow + MAX_TIME_FUTURE_DEVIATION THEN RateResult(FALSE, FALSE, map)
    ELSE IF govobj.outpoint \notin DOMAIN map THEN RateResult(TRUE, FALSE, map)
    ELSE IF map[govobj.outpoint].fStatusOK /\ ~fForce THEN RateResult(TRUE, TRUE, map)
    ELSE IF RateLess(GetRate(AddTimestamp(map[govobj.outpoint].triggerBuffer, govobj.nTime)), dMaxRate)
    THEN RateResult(TRUE, FALSE, map)
    ELSE RateResult(FALSE, FALSE,
            IF fUpdateFailStatus THEN [map EXCEPT ![govobj.outpoint].fStatusOK = FALSE] ELSE map)

\* ProcessMessage, GOVOBJ with ForcedRecheck left out: a bypassed object goes on.
ForcedRecheckSkipped(first, govobj, fIsValid, nNow, sync) == first

\* ProcessMessage, GOVOBJ: the second, forced rate check of a bypassed object.
ForcedRecheck(first, govobj, fIsValid, nNow, sync) ==
    IF first.fRateCheckBypassed /\ fIsValid
    THEN MasternodeRateCheck(first.map, govobj, TRUE, TRUE, nNow, sync, TRUE)
    ELSE first

\* ProcessMessage, GOVOBJ of a requested, unseen trigger: rate check, local
\* validation, forced rate check, AddGovernanceObject with MasternodeRateUpdate.
RateAfterObject(r, govobj, fIsValid, nNow, sync) ==
    IF ~MasternodeRateCheck(r.mapLastMasternodeObject, govobj, TRUE, FALSE, nNow, sync, TRUE).ok
    THEN [r EXCEPT !.mapLastMasternodeObject =
            MasternodeRateCheck(@, govobj, TRUE, FALSE, nNow, sync, TRUE).map]
    ELSE IF ~ForcedRecheck(MasternodeRateCheck(r.mapLastMasternodeObject, govobj, TRUE, FALSE, nNow, sync, TRUE),
                           govobj, fIsValid, nNow, sync).ok
    THEN [r EXCEPT !.mapLastMasternodeObject =
            ForcedRecheck(MasternodeRateCheck(@, govobj, TRUE, FALSE, nNow, sync, TRUE),
                          govobj, fIsValid, nNow, sync).map]
    ELSE IF ~fIsValid THEN r
    ELSE [mapLastMasternodeObject |-> MasternodeRateUpdate(r.mapLastMasternodeObject, govobj),
          admitted |-> Append(r.admitted, govobj)]

InitRate ==
    /\ InitIndex
    /\ llabs_min_neg = TRUE
    /\ calc = NoCalc
    /\ gov = NewGovernanceManager
    /\ now = StartTime
    /\ mn_sync = "synced"
    /\ tip_mn_list = MasternodeOutpoints
    /\ HandlersIdle
    /\ RateIdle

\* A peer sends GOVOBJ with a trigger.
TriggerReceived ==
    /\ Len(rate.admitted) < MaxAdmitted
    /\ \E govobj \in TriggerUniverse, fIsValid \in BOOLEAN :
          rate' = RateAfterObject(rate, govobj, fIsValid, now, mn_sync)
    /\ UNCHANGED <<sb, nonRateVars>>

NextRate ==
    \/ TriggerReceived
    \/ Tick

SpecRate == InitRate /\ [][NextRate]_vars

(***************************************************************************)
(* Superblock selection: mapTrigger, the funding votes of the triggers'    *)
(* objects and GetBestSuperblockInternal.                                  *)
(***************************************************************************)
\* Params().GetConsensus().nSuperblockCycle, in blocks.
nSuperblockCycle == 10
TriggerHashes == {1, 2, 3}
SuperblockHeights == {10, 20}
\* The heights GetBestSuperblock is asked about: one is no superblock height.
RequestedHeights == SuperblockHeights \cup {15}

\* Valid masternodes of the tip list that never vote.
SilentCounts == {0, 18}
\* Params().GetConsensus().nGovernanceMinQuorum
nGovernanceMinQuorum == 1
\* CDeterministicMNList::GetValidWeightedMNsCount: every masternode of the
\* model is a regular one, of weight 1.
GetValidWeightedMNsCount(mn_list, nSilent) == Cardinality(mn_list) + nSilent

\* CSuperblock::IsValidBlockHeight
IsValidBlockHeight(nBlockHeight) == nBlockHeight % nSuperblockCycle = 0

\* A trigger with the funding votes cast on its object, per masternode.
NewTrigger(nBlockHeight) ==
    [nBlockHeight |-> nBlockHeight, funding |-> [o \in MasternodeOutpoints |-> "none"],
     fCachedFunding |-> FALSE]

\* CGovernanceObject::GetAbsoluteYesCount(tip_mn_list, VOTE_SIGNAL_FUNDING)
GetAbsoluteYesCount(trigger, mn_list) ==
    Cardinality({o \in mn_list : trigger.funding[o] = "yes"})
        - Cardinality({o \in mn_list : trigger.funding[o] = "no"})

\* GetBestSuperblockInternal: the loop over the active triggers, in the
\* order of mapTrigger.
RECURSIVE BestSuperblockLoop(_, _, _, _, _)
BestSuperblockLoop(vecTriggers, map, nBlockHeight, mn_list, best) ==
    IF vecTriggers = <<>> THEN best
    ELSE BestSuperblockLoop(Tail(vecTriggers), map, nBlockHeight, mn_list,
            IF map[Head(vecTriggers)].nBlockHeight = nBlockHeight
               /\ GetAbsoluteYesCount(map[Head(vecTriggers)], mn_list) > best.nYesCount
            THEN [nYesCount |-> GetAbsoluteYesCount(map[Head(vecTriggers)], mn_list),
                  pSuperblockRet |-> Head(vecTriggers)]
            ELSE best)

\* CGovernanceManager::GetBestSuperblockInternal
GetBestSuperblockInternal(map, mn_list, nBlockHeight, pSuperblockRet) ==
    IF ~IsValidBlockHeight(nBlockHeight) THEN [ret |-> FALSE, pSuperblockRet |-> pSuperblockRet]
    ELSE [ret |-> BestSuperblockLoop(KeysInOrder(map), map, nBlockHeight, mn_list,
                     [nYesCount |-> 0, pSuperblockRet |-> pSuperblockRet]).nYesCount > 0,
          pSuperblockRet |-> BestSuperblockLoop(KeysInOrder(map), map, nBlockHeight, mn_list,
                     [nYesCount |-> 0, pSuperblockRet |-> pSuperblockRet]).pSuperblockRet]

InitBest ==
    /\ InitIndex
    /\ llabs_min_neg = TRUE
    /\ calc = NoCalc
    /\ gov = NewGovernanceManager
    /\ now = StartTime
    /\ mn_sync = "synced"
    /\ tip_mn_list \in {MasternodeOutpoints, {"m1"}}
    /\ HandlersIdle
    /\ RateIdle

\* AddNewTrigger: a trigger object was added to the store.
AddTrigger ==
    /\ \E nHash \in TriggerHashes \ DOMAIN sb.mapTrigger, nBlockHeight \in SuperblockHeights :
          sb' = [NoSuperblock EXCEPT
                    !.nSilent = sb.nSilent,
                    !.mapTrigger = MapInsert(sb.mapTrigger, nHash, NewTrigger(nBlockHeight))]
    /\ UNCHANGED <<rate, nonRateVars>>

\* A masternode's funding vote on a trigger's object is stored.
VoteFunding ==
    /\ \E nHash \in DOMAIN sb.mapTrigger, o \in MasternodeOutpoints, outcome \in {"yes", "no"} :
          sb' = [NoSuperblock EXCEPT
                    !.nSilent = sb.nSilent,
                    !.mapTrigger = [sb.mapTrigger EXCEPT ![nHash].funding[o] = outcome]]
    /\ UNCHANGED <<rate, nonRateVars>>

\* GetBestSuperblock(tip_mn_list, pSuperblockRet, nBlockHeight)
GetBestSuperblock ==
    /\ \E nBlockHeight \in RequestedHeights :
          sb' = [sb EXCEPT
                    !.op = "GetBestSuperblock", !.voutIn = <<>>, !.voutRet = <<>>,
                    !.call = nBlockHeight,
                    !.ret = GetBestSuperblockInternal(sb.mapTrigger, tip_mn_list, nBlockHeight, 0).ret,
                    !.pSuperblockRet =
                        GetBestSuperblockInternal(sb.mapTrigger, tip_mn_list, nBlockHeight, 0).pSuperblockRet]
    /\ UNCHANGED <<rate, nonRateVars>>

NextBest ==
    \/ AddTrigger
    \/ VoteFunding
    \/ GetBestSuperblock

SpecBest == InitBest /\ [][NextBest]_vars

\* CGovernanceObject::UpdateSentinelVariables: the funding flag is set when
\* the absolute YES count reaches max(nGovernanceMinQuorum, weighted count / 10).
UpdateSentinelVariables(trigger, mn_list, nSilent) ==
    LET nWeightedMnCount == GetValidWeightedMNsCount(mn_list, nSilent)
        nAbsVoteReq == IF nGovernanceMinQuorum >= nWeightedMnCount \div 10
                       THEN nGovernanceMinQuorum ELSE nWeightedMnCount \div 10
    IN  [trigger EXCEPT !.fCachedFunding = GetAbsoluteYesCount(trigger, mn_list) >= nAbsVoteReq]

\* IsSuperblockTriggered: the loop over the active triggers. The flags of the
\* triggers at the height are refreshed until one is found funded.
RECURSIVE SuperblockTriggeredLoop(_, _, _, _, _)
SuperblockTriggeredLoop(vecTriggers, map, nBlockHeight, mn_list, nSilent) ==
    IF vecTriggers = <<>> THEN [ret |-> FALSE, map |-> map]
    ELSE IF map[Head(vecTriggers)].nBlockHeight # nBlockHeight
    THEN SuperblockTriggeredLoop(Tail(vecTriggers), map, nBlockHeight, mn_list, nSilent)
    ELSE IF UpdateSentinelVariables(map[Head(vecTriggers)], mn_list, nSilent).fCachedFunding
    THEN [ret |-> TRUE,
          map |-> [map EXCEPT ![Head(vecTriggers)] = UpdateSentinelVariables(@, mn_list, nSilent)]]
    ELSE SuperblockTriggeredLoop(Tail(vecTriggers),
             [map EXCEPT ![Head(vecTriggers)] = UpdateSentinelVariables(@, mn_list, nSilent)],
             nBlockHeight, mn_list, nSilent)

\* CGovernanceManager::IsSuperblockTriggered
IsSuperblockTriggered(map, mn_list, nSilent, nBlockHeight) ==
    IF ~IsValidBlockHeight(nBlockHeight) THEN [ret |-> FALSE, map |-> map]
    ELSE SuperblockTriggeredLoop(KeysInOrder(map), map, nBlockHeight, mn_list, nSilent)

\* The outputs CSuperblock::GetPayment yields for a trigger.
Payments(nHash) == <<[nAmount |-> nHash, script |-> "payee"]>>

\* CGovernanceManager::GetSuperblockPayments
GetSuperblockPayments(map, mn_list, nBlockHeight, voutSuperblockRet) ==
    LET best == GetBestSuperblockInternal(map, mn_list, nBlockHeight, 0)
    IN  IF ~best.ret
        THEN [ret |-> FALSE, pSuperblockRet |-> best.pSuperblockRet,
              voutSuperblockRet |-> voutSuperblockRet]
        ELSE [ret |-> TRUE, pSuperblockRet |-> best.pSuperblockRet,
              voutSuperblockRet |-> Payments(best.pSuperblockRet)]

InitFunded ==
    /\ InitIndex
    /\ llabs_min_neg = TRUE
    /\ calc = NoCalc
    /\ gov = NewGovernanceManager
    /\ now = StartTime
    /\ mn_sync = "synced"
    /\ tip_mn_list = MasternodeOutpoints
    /\ HandlersIdle
    /\ rate = NoRate /\ glast = NoMsg /\ PlanesIdle
    /\ \E nSilent \in SilentCounts : sb = [NoSuperblock EXCEPT !.nSilent = nSilent]

\* The triggers of this specification.
FundedHashes == {1, 2}

\* AddNewTrigger: one of these triggers was added to the store.
AddFundedTrigger ==
    /\ \E nHash \in FundedHashes \ DOMAIN sb.mapTrigger, nBlockHeight \in SuperblockHeights :
          sb' = [NoSuperblock EXCEPT
                    !.nSilent = sb.nSilent,
                    !.mapTrigger = MapInsert(sb.mapTrigger, nHash, NewTrigger(nBlockHeight))]
    /\ UNCHANGED <<rate, nonRateVars>>

\* CheckAndRemove refreshes the cached flags of every object.
RefreshSentinels ==
    /\ sb' = [NoSuperblock EXCEPT
                 !.nSilent = sb.nSilent,
                 !.mapTrigger = [h \in DOMAIN sb.mapTrigger |->
                     UpdateSentinelVariables(sb.mapTrigger[h], tip_mn_list, sb.nSilent)]]
    /\ sb'.mapTrigger # sb.mapTrigger
    /\ UNCHANGED <<rate, nonRateVars>>

\* IsSuperblockTriggered(tip_mn_list, nBlockHeight)
SuperblockTriggered ==
    /\ \E nBlockHeight \in RequestedHeights :
          sb' = [sb EXCEPT
                    !.op = "IsSuperblockTriggered", !.voutIn = <<>>, !.voutRet = <<>>,
                    !.call = nBlockHeight, !.pSuperblockRet = 0,
                    !.ret = IsSuperblockTriggered(sb.mapTrigger, tip_mn_list, sb.nSilent,
                                                  nBlockHeight).ret,
                    !.mapTrigger = IsSuperblockTriggered(sb.mapTrigger, tip_mn_list, sb.nSilent,
                                                         nBlockHeight).map]
    /\ UNCHANGED <<rate, nonRateVars>>

\* GetSuperblockPayments(tip_mn_list, nBlockHeight, voutSuperblockRet); the
\* caller's vector is empty or holds an output.
SuperblockPayments ==
    /\ \E nBlockHeight \in RequestedHeights, voutSuperblockRet \in {<<>>, Payments(0)} :
          LET r == GetSuperblockPayments(sb.mapTrigger, tip_mn_list, nBlockHeight,
                                         voutSuperblockRet)
          IN  sb' = [sb EXCEPT
                        !.op = "GetSuperblockPayments", !.voutIn = voutSuperblockRet,
                        !.voutRet = r.voutSuperblockRet,
                        !.call = nBlockHeight, !.ret = r.ret,
                        !.pSuperblockRet = r.pSuperblockRet]
    /\ UNCHANGED <<rate, nonRateVars>>

NextFunded ==
    \/ AddFundedTrigger
    \/ VoteFunding
    \/ RefreshSentinels
    \/ SuperblockTriggered
    \/ GetBestSuperblock
    \/ SuperblockPayments

SpecFunded == InitFunded /\ [][NextFunded]_vars

(***************************************************************************)
(* Properties of the index.                                                *)
(***************************************************************************)
\* The store after write_block of the blocks, the first at height + 1, into d.
RECURSIVE ReplayBlocks(_, _, _)
ReplayBlocks(d, blocks, height) ==
    IF blocks = <<>> THEN d
    ELSE ReplayBlocks(WriteBlockRun(d, Head(blocks), height + 1, TRUE, 0, llabs_min_neg).db,
                      Tail(blocks), height + 1)

\* The store a fresh index holds after the blocks of the chain.
FreshReplay == ReplayBlocks(EmptyDB, chain, StartHeight)

Rewound == last.op = "rewind" /\ last.ok
Written == last.op = "write_block" /\ last.ok

\* C1: after a rewind to h that returned true, the five keyspaces of the store
\* equal those of a fresh store into which only the blocks of height <= h were
\* written.
C1_RewindEqualsFreshReplay == Rewound => db = FreshReplay

\* C2: a rewind to h removes exactly the points created above h, leaves no
\* transfer record of a removed origin, and keeps every point created at or
\* below h.
C2_RewindRemovesExactlyAbove ==
    Rewound =>
        /\ DOMAIN db.p \subseteq DOMAIN last.before.p
        /\ \A t \in DOMAIN last.before.p :
              (t \in DOMAIN db.p) <=> (last.before.p[t].height <= last.height)
        /\ \A k \in DOMAIN last.before.t : k.origin \notin DOMAIN db.p => k \notin DOMAIN db.t

\* C3: after a rewind to h every point that existed after block h has the owner
\* it had then, and exactly the transfer records of height > h are gone.
C3_RewindRestoresOwners ==
    Rewound =>
        /\ \A t \in DOMAIN db.p \cap DOMAIN FreshReplay.p :
              db.p[t].current_owner = FreshReplay.p[t].current_owner
        /\ DOMAIN db.t = {k \in DOMAIN last.before.t : last.before.t[k].height <= last.height}

\* C4: while no call has failed, every point record has its height entry, has its
\* owner entry exactly when its current owner is not empty, and every transfer
\* record has its transfer-height entry.
C4_IndexEntriesMatch ==
    ~halted =>
        /\ \A t \in DOMAIN db.p :
              /\ [height |-> db.p[t].height, txid |-> t] \in db.h
              /\ ([owner |-> db.p[t].current_owner, txid |-> t] \in db.o) <=> (db.p[t].current_owner # "")
        /\ \A k \in DOMAIN db.t :
              [height |-> db.t[k].height, origin |-> k.origin, transfer |-> k.transfer] \in db.y

\* C4 witness: after a rewind and a further block the store holds a point and a
\* transfer record.
C4_Witness ==
    /\ Written
    /\ rewinds = 1
    /\ DOMAIN db.p # {}
    /\ DOMAIN db.t # {}

\* The transfer records the last write_block added.
NewTransfers == DOMAIN db.t \ DOMAIN last.before.t

\* The position in the last block of the transaction with the id.
PosOf(txid) == CHOOSE i \in 1..Len(last.vtx) : last.vtx[i].txid = txid

\* The transaction is no coinbase and carries the payload of a creation, and one
\* of its spendable outputs has a destination.
IsCreation(tx) ==
    /\ ~tx.coinbase
    /\ \E i \in 1..Len(tx.vout) : tx.vout[i].spendable /\ tx.vout[i].dest # ""
    /\ FirstPayload(tx.vout) # <<>>
    /\ SubSeq(FirstPayload(tx.vout), 1, 9) = MAP_POINT_PREFIX \o <<":">>

\* The records of the last block that moved the origin of k before k did.
EarlierTransfers(k) ==
    {j \in NewTransfers : j.origin = k.origin /\ PosOf(j.transfer) < PosOf(k.transfer)}

\* The owner of the origin of k when the transaction of k is reached: the new
\* owner of the latest earlier transfer of the block, else the owner in the
\* store before the block, else the owner the creation in the block gave it.
OwnerBefore(k) ==
    IF EarlierTransfers(k) # {}
    THEN db.t[CHOOSE j \in EarlierTransfers(k) :
                 \A i \in EarlierTransfers(k) : PosOf(i.transfer) <= PosOf(j.transfer)].new_owner
    ELSE IF k.origin \in DOMAIN last.before.p THEN last.before.p[k.origin].current_owner
    ELSE FirstDestination(last.vtx[PosOf(k.origin)].vout)

\* C5: in a chain that was never rewound, every transfer record a write_block
\* adds belongs to a transaction of the block, not its coinbase, (i) whose origin
\* was in the store or is created earlier in the block, (ii) one of whose inputs
\* spends an output of the owner the point has when the transaction is reached,
\* (iii) whose new owner is the destination of a spendable output, (iv) other
\* than that owner; the owner of a point changes only with such a record, and a
\* coinbase creates no point and no transfer.
C5_TransferOnlyIfConditions ==
    (Written /\ rewinds = 0) =>
        /\ \A k \in NewTransfers :
              /\ \E i \in 2..Len(last.vtx) : last.vtx[i].txid = k.transfer
              /\ \/ k.origin \in DOMAIN last.before.p
                 \/ \E j \in 1..(PosOf(k.transfer) - 1) :
                        last.vtx[j].txid = k.origin /\ IsCreation(last.vtx[j])
              /\ OwnerBefore(k) # ""
              /\ \E i \in 1..Len(last.vtx[PosOf(k.transfer)].prevouts) :
                    /\ last.vtx[PosOf(k.transfer)].prevouts[i].spendable
                    /\ last.vtx[PosOf(k.transfer)].prevouts[i].dest = OwnerBefore(k)
              /\ \E i \in 1..Len(last.vtx[PosOf(k.transfer)].vout) :
                    /\ last.vtx[PosOf(k.transfer)].vout[i].spendable
                    /\ last.vtx[PosOf(k.transfer)].vout[i].dest = db.t[k].new_owner
              /\ db.t[k].new_owner # ""
              /\ db.t[k].new_owner # OwnerBefore(k)
        /\ \A t \in DOMAIN last.before.p \cap DOMAIN db.p :
              db.p[t].current_owner # last.before.p[t].current_owner
                  => \E k \in NewTransfers : k.origin = t /\ db.t[k].new_owner = db.p[t].current_owner
        /\ \A i \in 1..Len(last.vtx) :
              last.vtx[i].coinbase =>
                  /\ last.vtx[i].txid \notin DOMAIN db.p
                  /\ \A k \in DOMAIN db.t : k.transfer # last.vtx[i].txid

\* C6: a write_block that returned false left the store as it found it.
C6_FailedWriteLeavesStore == (last.op = "write_block" /\ ~last.ok) => db = last.before

\* The transaction asks for the transfer of a point: it is no coinbase and its
\* payload starts with the transfer prefix.
IsTransferRequest(tx) ==
    /\ ~tx.coinbase
    /\ FirstPayload(tx.vout) # <<>>
    /\ SubSeq(FirstPayload(tx.vout), 1, 9) = MAP_POINT_TRANSFER_PREFIX \o <<":">>

\* Every transfer the block asks for is of a point persisted before the block or
\* created earlier in the block.
TransfersOfKnownPoints(vtx, before) ==
    \A i \in 1..Len(vtx) :
        IsTransferRequest(vtx[i]) =>
            \/ ParseTransferPayload(FirstPayload(vtx[i].vout)).txid \in DOMAIN before.p
            \/ \E j \in 1..(i - 1) :
                  /\ IsCreation(vtx[j])
                  /\ vtx[j].txid = ParseTransferPayload(FirstPayload(vtx[i].vout)).txid

\* C7: a second write_block of the same block, directly after the first returned
\* true, leaves the store as the first call left it, for a block of creations
\* and of transfers of points that were persisted or created earlier in the block.
C7_ReplayLeavesStore ==
    (/\ last.op = "replay"
     /\ last.ok
     /\ TransfersOfKnownPoints(last.vtx, last.prior)) => db = last.before

\* A decimal integer in text: an optional sign and digits.
IsIntText(str) ==
    /\ str # <<>>
    /\ Len(IF str[1] \in {"-", "+"} THEN Tail(str) ELSE str) > 0
    /\ \A i \in 1..Len(str) : IsDecChar(str[i]) \/ (i = 1 /\ str[i] \in {"-", "+"})

\* The digits of the text, without its sign.
TextDigits(str) ==
    [i \in 1..Len(IF str[1] \in {"-", "+"} THEN Tail(str) ELSE str) |->
        DecVal((IF str[1] \in {"-", "+"} THEN Tail(str) ELSE str)[i])]

\* The integer of the text is at most bound in absolute value (bound < 10^9).
TextAbsAtMost(str, bound) ==
    /\ Len(StripZeros(TextDigits(str))) <= 9
    /\ DigitsNat(StripZeros(TextDigits(str))) <= bound

\* ORINMAP1:<lat>:<lon> with both integers in range.
WellFormedCreation(payload) ==
    /\ Len(payload) > 9
    /\ SubSeq(payload, 1, 9) = MAP_POINT_PREFIX \o <<":">>
    /\ \E i \in 10..Len(payload) :
        /\ payload[i] = ":"
        /\ IsIntText(SubSeq(payload, 10, i - 1))
        /\ IsIntText(SubSeq(payload, i + 1, Len(payload)))
        /\ TextAbsAtMost(SubSeq(payload, 10, i - 1), 90000000)
        /\ TextAbsAtMost(SubSeq(payload, i + 1, Len(payload)), 180000000)

\* ORINMAPX:<64 hexadecimal digits>
WellFormedTransfer(payload) ==
    /\ Len(payload) = 73
    /\ SubSeq(payload, 1, 9) = MAP_POINT_TRANSFER_PREFIX \o <<":">>
    /\ \A i \in 10..73 : IsHexChar(payload[i])

\* The transaction carries a payload that is neither.
Malformed(tx) ==
    /\ ~tx.coinbase
    /\ FirstPayload(tx.vout) # <<>>
    /\ ~WellFormedCreation(FirstPayload(tx.vout))
    /\ ~WellFormedTransfer(FirstPayload(tx.vout))

\* The store holds an entry of some keyspace for the transaction.
HasEntry(d, txid) ==
    \/ txid \in DOMAIN d.p
    \/ \E k \in d.h : k.txid = txid
    \/ \E k \in d.o : k.txid = txid
    \/ \E k \in DOMAIN d.t : k.transfer = txid \/ k.origin = txid
    \/ \E k \in d.y : k.transfer = txid \/ k.origin = txid

\* C8: a write_block of a block whose only transaction with a payload, besides
\* the coinbase, carries a malformed one returns true and writes nothing, and
\* the store never holds an entry for a transaction with a malformed payload.
C8_MalformedPayloadIgnored ==
    /\ \A i \in 1..Len(chain) : \A j \in 1..Len(chain[i]) :
          Malformed(chain[i][j]) => ~HasEntry(db, chain[i][j].txid)
    /\ (last.op = "write_block" /\ \E j \in 1..Len(last.vtx) : Malformed(last.vtx[j]))
          => (last.ok /\ db = last.before)

\* The double is finite and within [-max_abs, max_abs] degrees.
Acceptable(value, max_abs) ==
    /\ value.kind = "finite"
    /\ value.v >= -(max_abs * UnitsPerDegree)
    /\ value.v <= max_abs * UnitsPerDegree

\* The two values differ by at most 10^-6 degree.
Within(a, b) ==
    /\ a - b <= UnitsPerDegree \div COORD_SCALE
    /\ b - a <= UnitsPerDegree \div COORD_SCALE

\* C9: an acceptable pair is encoded, and decoding gives each coordinate back up
\* to 10^-6; a pair with a coordinate that is not finite or out of range gives
\* false and an error text; 55.751244, 37.618423 gives 55751244, 37618423 and
\* the payload ORINMAP1:55751244:37618423; the payload of an encoded pair is
\* parsed back to the same two integers.
C9_CoordinatesRoundTrip ==
    /\ calc.stage \in {"encoded", "built", "parsed"} =>
        /\ (Acceptable(calc.lat, 90) /\ Acceptable(calc.lon, 180)) =>
              /\ calc.enc.ok
              /\ Within(DecodeCoordinate(calc.enc.encoded_lat), calc.lat.v)
              /\ Within(DecodeCoordinate(calc.enc.encoded_lon), calc.lon.v)
        /\ ~(Acceptable(calc.lat, 90) /\ Acceptable(calc.lon, 180)) =>
              /\ ~calc.enc.ok
              /\ calc.enc.error # ""
        /\ (calc.lat = Finite(557512440) /\ calc.lon = Finite(376184230)) =>
              /\ calc.enc.encoded_lat = 55751244
              /\ calc.enc.encoded_lon = 37618423
    /\ calc.stage \in {"built", "parsed"} =>
        ((calc.lat = Finite(557512440) /\ calc.lon = Finite(376184230)) =>
              calc.payload = <<"O", "R", "I", "N", "M", "A", "P", "1", ":", "5", "5", "7", "5", "1", "2", "4", "4", ":", "3", "7", "6", "1", "8", "4", "2", "3">>)
    /\ calc.stage = "parsed" =>
        /\ calc.parsed.ok
        /\ calc.parsed.lat = I64(calc.enc.encoded_lat)
        /\ calc.parsed.lon = I64(calc.enc.encoded_lon)

\* C9 witness: a negative latitude that falls between two encodings and the
\* largest longitude went through encoding, payload and parsing.
C9_Witness ==
    /\ calc.stage = "parsed"
    /\ calc.lat = Finite(-557512445)
    /\ calc.lon = Finite(1800000000)
    /\ calc.parsed.ok

\* C10 (GOV1): every vote hash in vote_to_object maps to an object that is in
\* objects, and the vote file of that object contains the vote.
C10_VoteToObjectConsistent ==
    \A i \in 1..Len(gov.cmapVoteToObject) :
        /\ gov.cmapVoteToObject[i].value \in DOMAIN gov.mapObjects
        /\ gov.cmapVoteToObject[i].key \in gov.mapObjects[gov.cmapVoteToObject[i].value].fileVotes

(***************************************************************************)
(* Properties of the governance message handlers.                          *)
(***************************************************************************)
\* C11 (GOV2): for every hash, AcceptMessage has returned true at most once
\* per entry inserted into m_requested_hash_time and at most once per true
\* result of ConfirmInventoryRequest, whatever the interleaving of the
\* handler threads.
C11_AcceptedAtMostOncePerInsertion ==
    \A h \in DOMAIN tally :
        /\ tally[h].accepted <= tally[h].inserted
        /\ tally[h].accepted <= tally[h].confirmed

\* Two handlers have called AcceptMessage for the same hash, requested once:
\* one call returned true, the other false.
C11_Witness ==
    \E t1, t2 \in DOMAIN threads :
        /\ t1 # t2
        /\ threads[t1].pc = "idle" /\ threads[t2].pc = "idle"
        /\ threads[t1].hash # 0 /\ threads[t1].hash = threads[t2].hash
        /\ threads[t1].ret /\ ~threads[t2].ret
        /\ tally[threads[t1].hash].inserted = 1
        /\ tally[threads[t1].hash].accepted = 1

\* C12: whenever ConfirmInventoryRequest returns true for a hash, the hash
\* was not on the request list before the call, and after the call the list
\* holds it with valid-until = now + RELIABLE_PROPAGATION_TIME.
C12_ConfirmRecordsNewRequest ==
    [][\A h \in DOMAIN tally :
          tally'[h].confirmed # tally[h].confirmed =>
              /\ h \notin DOMAIN gov.m_requested_hash_time
              /\ h \in DOMAIN gov'.m_requested_hash_time
              /\ gov'.m_requested_hash_time[h] = now + RELIABLE_PROPAGATION_TIME]_vars

\* The admitted triggers of a masternode created in the window that starts at w.
AdmittedInWindow(outpoint, w) ==
    {i \in DOMAIN rate.admitted :
        /\ rate.admitted[i].outpoint = outpoint
        /\ w <= rate.admitted[i].nTime
        /\ rate.admitted[i].nTime < w + nSuperblockCycleSeconds}

\* C13 (GOV3): for every masternode and every window of one superblock
\* cycle, at most ceil(2 x 1.1) = 3 admitted triggers have their creation
\* time in the window.
C13_AtMostThreePerWindow ==
    \A i \in DOMAIN rate.admitted :
        Cardinality(AdmittedInWindow(rate.admitted[i].outpoint, rate.admitted[i].nTime)) <= 3

\* C14 (GOV4): a hash in mapErasedGovernanceObjects (all objects here are
\* proposals) is still there after every step, and is neither in mapObjects
\* nor in mapPostponedObjects after the step.
C14_ErasedNeverReadmitted ==
    [][\A h \in DOMAIN gov.mapErasedGovernanceObjects :
          /\ h \in DOMAIN gov'.mapErasedGovernanceObjects
          /\ h \notin DOMAIN gov'.mapObjects
          /\ h \notin DOMAIN gov'.mapPostponedObjects]_vars

\* The triggers at the height of the last GetBestSuperblock call.
TriggersAtCall == {h \in DOMAIN sb.mapTrigger : sb.mapTrigger[h].nBlockHeight = sb.call}

\* C15 (GOV5): when GetBestSuperblock returns a superblock, no trigger at
\* that height has a higher absolute YES count on FUNDING, and no trigger at
\* that height with the same count has a numerically higher hash.
C15_BestSuperblockHighestHashOnTie ==
    (sb.call # 0 /\ sb.ret) =>
        /\ sb.pSuperblockRet \in TriggersAtCall
        /\ \A k \in TriggersAtCall :
              \/ GetAbsoluteYesCount(sb.mapTrigger[k], tip_mn_list)
                    < GetAbsoluteYesCount(sb.mapTrigger[sb.pSuperblockRet], tip_mn_list)
              \/ /\ GetAbsoluteYesCount(sb.mapTrigger[k], tip_mn_list)
                       = GetAbsoluteYesCount(sb.mapTrigger[sb.pSuperblockRet], tip_mn_list)
                 /\ k <= sb.pSuperblockRet

\* The last message handled was not on the request list.
Unsolicited ==
    /\ glast.op # "none"
    /\ glast.msg.hash \notin DOMAIN glast.before.m_requested_hash_time

C17_DeletedObjectNotServed ==
    \A h \in DOMAIN gov.mapObjects :
        gov.mapObjects[h].fCachedDelete =>
            /\ gov.mapObjects[h].nDeletionTime > 0
            /\ \A i \in DOMAIN SyncObjects(gov, mn_sync, FALSE).m_inventory :
                  SyncObjects(gov, mn_sync, FALSE).m_inventory[i].hash # h
            /\ SyncSingleObjVotes(gov, h, {}, mn_sync, tip_mn_list) = {}
            /\ ~SerializeObjectForHash(gov, h).ok

\* The last message handled was a GOVOBJ on the request list with an object
\* that is in none of objects, postponed objects and erased objects, handled
\* past the synchronisation check.
SolicitedNewObject ==
    /\ glast.op = "GOVOBJ"
    /\ mn_sync # "initial"
    /\ glast.msg.hash \in DOMAIN glast.before.m_requested_hash_time
    /\ glast.msg.hash \notin DOMAIN glast.before.mapObjects
                               \cup DOMAIN glast.before.mapPostponedObjects
                               \cup DOMAIN glast.before.mapErasedGovernanceObjects

SolicitedOrphanVote ==
    /\ glast.op = "GOVVOTE"
    /\ mn_sync # "initial"
    /\ glast.msg.hash \in DOMAIN glast.before.m_requested_hash_time
    /\ glast.msg.parent \notin DOMAIN glast.before.mapObjects

\* The entry the orphan cache takes for the last vote handled.
OrphanEntry ==
    [key |-> glast.msg.parent,
     value |-> [vote |-> glast.msg, expire |-> now + GOVERNANCE_ORPHAN_EXPIRATION_TIME]]

\* The last vote handled was treated as an orphan: it is in the orphan cache
\* under its parent with expiry ten minutes from now, the parent was requested
\* exactly when the cache took a new entry, the vote is not in the vote index
\* and the result has no MisbehavingError.
TreatedAsOrphan ==
    /\ \E i \in 1..Len(glast.after.cmmapOrphanVotes) : glast.after.cmmapOrphanVotes[i] = OrphanEntry
    /\ glast.request <=>
          ~\E i \in 1..Len(CachePrune(glast.before.cmmapOrphanVotes)) :
                CachePrune(glast.before.cmmapOrphanVotes)[i] = OrphanEntry
    /\ ~CacheHasKey(glast.after.cmapVoteToObject, glast.msg.hash)
    /\ glast.ret.m_error = 0

\* C19 as stated: every requested GOVVOTE whose parent is not in objects is
\* treated as an orphan.
C19_OrphanVoteTransient == SolicitedOrphanVote => TreatedAsOrphan

\* C19, amended: a requested GOVVOTE whose parent is not in objects and whose
\* hash is not in the cache of invalid votes is treated as an orphan.
C19_OrphanVoteTransientUnlessKnownInvalid ==
    (SolicitedOrphanVote /\ ~CacheHasKey(glast.before.cmapInvalidVotes, glast.msg.hash))
        => TreatedAsOrphan

\* A requested vote for an unknown parent, not known as invalid, was handled
\* and the parent was requested.
C19_Witness ==
    /\ SolicitedOrphanVote
    /\ ~CacheHasKey(glast.before.cmapInvalidVotes, glast.msg.hash)
    /\ glast.request
    /\ \E i \in 1..Len(gov.cmmapOrphanVotes) : gov.cmmapOrphanVotes[i] = OrphanEntry

\* The orphan-cache entries that the last GOVOBJ handled had to drain: the
\* object was requested, unseen and valid, the node is synced, and the entry
\* is an unexpired vote on that object, with a good signature, of a masternode
\* in the tip list.
DrainedOrphans ==
    IF SolicitedNewObject /\ mn_sync = "synced"
       /\ IsValidLocally(glast.msg, glast.fee, now) = "valid"
    THEN {i \in 1..Len(glast.before.cmmapOrphanVotes) :
            /\ glast.before.cmmapOrphanVotes[i].key = glast.msg.hash
            /\ glast.before.cmmapOrphanVotes[i].value.expire >= now
            /\ glast.before.cmmapOrphanVotes[i].value.vote.sig
            /\ glast.before.cmmapOrphanVotes[i].value.vote.outpoint \in tip_mn_list}
    ELSE {}

\* C20: when a GOVOBJ is accepted while an unexpired orphan vote on it is
\* queued, then on return the vote file of the object stored in objects holds
\* the vote, the vote's inventory is in the relay queue and the vote is no
\* longer in the orphan cache.
C20_OrphanDrain ==
    \A i \in DrainedOrphans :
        /\ glast.msg.hash \in DOMAIN glast.after.mapObjects
        /\ glast.before.cmmapOrphanVotes[i].value.vote.hash
              \in glast.after.mapObjects[glast.msg.hash].fileVotes
        /\ \E j \in 1..Len(glast.after.m_relay_invs) :
              glast.after.m_relay_invs[j] =
                [type |-> MSG_GOVERNANCE_OBJECT_VOTE,
                 hash |-> glast.before.cmmapOrphanVotes[i].value.vote.hash]
        /\ ~\E j \in 1..Len(glast.after.cmmapOrphanVotes) :
              glast.after.cmmapOrphanVotes[j] = glast.before.cmmapOrphanVotes[i]

\* The step is a run of the maintenance job.
IsMaintenanceStep ==
    \E vecDirtyHashes \in SUBSET {o.hash : o \in ObjectUniverse} :
        gov' = CheckAndRemove(CleanOrphanObjects(gov, now), vecDirtyHashes, now, mn_sync, tip_mn_list)

RelayPending == SubSeq(gov.m_relay_invs, relay.i, Len(gov.m_relay_invs))

\* Every inventory enqueued was handed to the peer manager or is waiting in
\* m_relay_invs, once and in the order of the enqueues.
RelayedOnceInOrder == relay.out \o RelayPending = relay.enq

\* C22: every inventory enqueued into m_relay_invs is handed to the peer
\* manager exactly once and in enqueue order; a run of the relay job leaves
\* m_relay_invs empty with everything enqueued before it handed on; and with
\* a scheduler that keeps running the job every inventory enqueued is
\* eventually handed on.
C22_RelayExactlyOnceEventually ==
    /\ []RelayedOnceInOrder
    /\ [][RelayJobClear => (gov'.m_relay_invs = <<>> /\ relay'.out = relay.enq)]_vars
    /\ \A k \in 1..(Cardinality(ObjectUniverse) + Cardinality(VoteUniverse)) :
          (Len(relay.enq) >= k) ~> (Len(relay.out) >= k)

\* An object and a vote were enqueued in two different runs of the relay job
\* and both were handed on.
C22_Witness ==
    /\ Len(relay.out) >= 2
    /\ relay.out = relay.enq
    /\ relay.pc = "idle"
    /\ \E j \in 1..Len(relay.out) : relay.out[j].type = MSG_GOVERNANCE_OBJECT_VOTE

\* The position of the first entry of the mutex in a thread's held list (0:
\* not held).
FirstHeld(t, mutex) ==
    IF Holds(t, mutex)
    THEN CHOOSE i \in 1..Len(locks[t].held) :
            /\ locks[t].held[i] = mutex
            /\ \A j \in 1..(i - 1) : locks[t].held[j] # mutex
    ELSE 0

\* C23: a thread that holds both cs_main and cs took cs_main first, and no
\* thread takes cs_relay while it holds cs.
C23_LockOrder ==
    \A t \in LockThreads :
        /\ (Holds(t, "cs_main") /\ Holds(t, "cs")) => FirstHeld(t, "cs_main") < FirstHeld(t, "cs")
        /\ (Holds(t, "cs_relay") /\ Holds(t, "cs")) => FirstHeld(t, "cs_relay") < FirstHeld(t, "cs")

\* C24: no two threads each hold one of cs_main and cs and wait for the
\* other one.
C24_NoDeadlock ==
    ~\E t, u \in LockThreads :
        /\ t # u
        /\ Holds(t, "cs") /\ WaitsFor(t, "cs_main")
        /\ Holds(u, "cs_main") /\ WaitsFor(u, "cs")

\* The rate check of a trigger gets as far as computing the rate and finds it
\* not below the permitted rate.
RateComputedTooHigh(map, govobj, fForce) ==
    /\ mn_sync = "synced"
    /\ govobj.nTime >= now - 2 * nSuperblockCycleSeconds
    /\ govobj.nTime <= now + MAX_TIME_FUTURE_DEVIATION
    /\ govobj.outpoint \in DOMAIN map
    /\ ~(map[govobj.outpoint].fStatusOK /\ ~fForce)
    /\ ~RateLess(GetRate(AddTimestamp(map[govobj.outpoint].triggerBuffer, govobj.nTime)), dMaxRate)

\* The map r that MasternodeRateCheck leaves differs from the stored map in
\* no buffer and in no other masternode's record, and fStatusOK of the
\* submitting masternode is false in it exactly when the rate was computed,
\* was not below the permitted rate and fUpdateFailStatus is set.
SameButStatus(map, r, govobj, fUpdateFailStatus, fForce) ==
    /\ DOMAIN r = DOMAIN map
    /\ \A o \in DOMAIN map :
          /\ r[o].triggerBuffer = map[o].triggerBuffer
          /\ r[o].fStatusOK
                = IF o = govobj.outpoint /\ fUpdateFailStatus /\ RateComputedTooHigh(map, govobj, fForce)
                  THEN FALSE ELSE map[o].fStatusOK

RateCheckSpeculative(map, govobj, fUpdateFailStatus, fForce) ==
    SameButStatus(map,
                  MasternodeRateCheck(map, govobj, fUpdateFailStatus, fForce, now, mn_sync, TRUE).map,
                  govobj, fUpdateFailStatus, fForce)

\* C25: MasternodeRateCheck changes no stored rate buffer and changes
\* fStatusOK only as a failed computed check with fUpdateFailStatus does; a
\* stored buffer changes only by taking the creation time of a trigger that
\* is admitted (validated and added to the objects) in the same step.
C25_RateCheckSpeculative ==
    /\ [](\A govobj \in TriggerUniverse, fUpdateFailStatus \in BOOLEAN, fForce \in BOOLEAN :
            RateCheckSpeculative(rate.mapLastMasternodeObject, govobj, fUpdateFailStatus, fForce))
    /\ [][\A o \in DOMAIN rate'.mapLastMasternodeObject :
            (\/ o \notin DOMAIN rate.mapLastMasternodeObject
             \/ rate'.mapLastMasternodeObject[o].triggerBuffer
                   # rate.mapLastMasternodeObject[o].triggerBuffer)
            => /\ Len(rate'.admitted) = Len(rate.admitted) + 1
               /\ rate'.admitted[Len(rate'.admitted)].outpoint = o
               /\ rate'.mapLastMasternodeObject[o].triggerBuffer =
                     AddTimestamp(IF o \in DOMAIN rate.mapLastMasternodeObject
                                  THEN rate.mapLastMasternodeObject[o].triggerBuffer ELSE <<>>,
                                  rate'.admitted[Len(rate'.admitted)].nTime)]_vars

\* A trigger failed the forced rate check: its masternode has triggers in its
\* buffer and fStatusOK false.
C25_Witness ==
    \E o \in DOMAIN rate.mapLastMasternodeObject :
        /\ ~rate.mapLastMasternodeObject[o].fStatusOK
        /\ Len(rate.mapLastMasternodeObject[o].triggerBuffer) >= 2


\* ---------------------------------------------------------------------------
\* GetApprovedProposals
\* ---------------------------------------------------------------------------

\* Hashes of the objects: 256 is below 1 and 2 in the byte order of mapObjects
\* and above them as a number.
ProposalHashes == {1, 2, 256}
ObjectTypes == {"PROPOSAL", "TRIGGER"}

\* An object of the given type, no funding vote cast on it yet.
NewObjectOfType(type) == [type |-> type, funding |-> [o \in MasternodeOutpoints |-> "none"]]

\* The comparator of the std::sort: more YES first, on a tie the hash that is
\* higher as a number (UintToArith256) first.
ApprovedBefore(map, mn_list, lhs, rhs) ==
    LET lhs_yes == GetAbsoluteYesCount(map[lhs], mn_list)
        rhs_yes == GetAbsoluteYesCount(map[rhs], mn_list)
    IN  IF lhs_yes = rhs_yes THEN lhs > rhs ELSE lhs_yes > rhs_yes

\* std::sort(ret.begin(), ret.end(), comparator): the comparator is a strict
\* total order on distinct hashes, so the result is the one ordered sequence.
InsertApproved(map, mn_list, sorted, h) ==
    LET before == SelectSeq(sorted, LAMBDA e : ~ApprovedBefore(map, mn_list, h, e))
        after == SelectSeq(sorted, LAMBDA e : ApprovedBefore(map, mn_list, h, e))
    IN  before \o <<h>> \o after

RECURSIVE SortApproved(_, _, _)
SortApproved(map, mn_list, ret) ==
    IF ret = <<>> THEN <<>>
    ELSE InsertApproved(map, mn_list, SortApproved(map, mn_list, Tail(ret)), Head(ret))

\* The vector before the sort: the passing proposals in the order of mapObjects.
ApprovedInMapOrder(map, mn_list, nSilent) ==
    LET nWeightedMnCount == GetValidWeightedMNsCount(mn_list, nSilent)
        nAbsVoteReq == IF nGovernanceMinQuorum >= nWeightedMnCount \div 10
                       THEN nGovernanceMinQuorum ELSE nWeightedMnCount \div 10
    IN  SelectSeq(KeysInOrder(map),
                  LAMBDA h : /\ map[h].type = "PROPOSAL"
                             /\ GetAbsoluteYesCount(map[h], mn_list) >= nAbsVoteReq)

GetApprovedProposalsUnsorted(map, mn_list, nSilent) == ApprovedInMapOrder(map, mn_list, nSilent)
\* CGovernanceManager::GetApprovedProposals(tip_mn_list)
GetApprovedProposals(map, mn_list, nSilent) ==
    SortApproved(map, mn_list, ApprovedInMapOrder(map, mn_list, nSilent))

InitApproved ==
    /\ InitIndex
    /\ llabs_min_neg = TRUE
    /\ calc = NoCalc
    /\ gov = NewGovernanceManager
    /\ now = StartTime
    /\ mn_sync = "synced"
    /\ tip_mn_list \in {MasternodeOutpoints, {"m1"}}
    /\ HandlersIdle
    /\ rate = NoRate /\ sb = NoSuperblock /\ glast = NoMsg
    /\ relay = RelayIdle /\ locks = LocksIdle /\ asked = NoAsked
    /\ \E nSilent \in SilentCounts : props = [NoProps EXCEPT !.nSilent = nSilent]

\* An object enters mapObjects.
ApprovedAddObject ==
    /\ \E nHash \in ProposalHashes \ DOMAIN props.mapObjects, type \in ObjectTypes :
          props' = [props EXCEPT
                       !.mapObjects = MapInsert(props.mapObjects, nHash, NewObjectOfType(type)),
                       !.called = FALSE, !.ret = <<>>]
    /\ UNCHANGED <<relay, locks, asked, govVars, nonPlaneVars>>

\* A masternode's funding vote on an object is stored.
ApprovedVote ==
    /\ \E nHash \in DOMAIN props.mapObjects, o \in MasternodeOutpoints, outcome \in {"yes", "no"} :
          props' = [props EXCEPT !.mapObjects[nHash].funding[o] = outcome,
                                 !.called = FALSE, !.ret = <<>>]
    /\ UNCHANGED <<relay, locks, asked, govVars, nonPlaneVars>>

\* GetApprovedProposals(tip_mn_list) is called.
ApprovedCall ==
    /\ props' = [props EXCEPT
                    !.called = TRUE,
                    !.ret = GetApprovedProposals(props.mapObjects, tip_mn_list, props.nSilent)]
    /\ UNCHANGED <<relay, locks, asked, govVars, nonPlaneVars>>

NextApproved ==
    \/ ApprovedAddObject
    \/ ApprovedVote
    \/ ApprovedCall

SpecApproved == InitApproved /\ [][NextApproved]_vars

\* The absolute YES count of an object on the funding signal, counted over the
\* masternodes of the tip list.
FundingYes(nHash) ==
    Cardinality({o \in tip_mn_list : props.mapObjects[nHash].funding[o] = "yes"})
        - Cardinality({o \in tip_mn_list : props.mapObjects[nHash].funding[o] = "no"})

\* max(consensus_min_quorum, weighted_mn_count / 10)
RequiredYes ==
    LET tenth == (Cardinality(tip_mn_list) + props.nSilent) \div 10
    IN  IF tenth > nGovernanceMinQuorum THEN tenth ELSE nGovernanceMinQuorum

\* C26: GetApprovedProposals returns exactly the PROPOSAL objects whose
\* absolute YES count on the funding signal reaches max(minimum quorum,
\* weighted masternode count / 10), each once, ordered by YES count descending
\* and, on equal counts, by the numerically higher hash first; no object of
\* another type is returned.
C26_ApprovedProposals ==
    props.called =>
        /\ {props.ret[i] : i \in DOMAIN props.ret}
              = {h \in DOMAIN props.mapObjects :
                    /\ props.mapObjects[h].type = "PROPOSAL"
                    /\ FundingYes(h) >= RequiredYes}
        /\ \A i, j \in DOMAIN props.ret :
              i < j => \/ FundingYes(props.ret[i]) > FundingYes(props.ret[j])
                       \/ /\ FundingYes(props.ret[i]) = FundingYes(props.ret[j])
                          /\ props.ret[i] > props.ret[j]

\* Two proposals tie above a third one's count, the threshold is the tenth of
\* the masternode count, and a trigger with enough YES votes is left out.
C26_Witness ==
    /\ props.called
    /\ RequiredYes > nGovernanceMinQuorum
    /\ props.ret = <<256, 1>>
    /\ FundingYes(256) = FundingYes(1)
    /\ 2 \in DOMAIN props.mapObjects
    /\ props.mapObjects[2].type = "TRIGGER"
    /\ FundingYes(2) >= RequiredYes

\* A call that returns proposals of different counts, the lower hash first.
C26_WitnessByCount ==
    /\ props.called
    /\ props.ret = <<1, 256>>
    /\ FundingYes(1) > FundingYes(256)


\* ---------------------------------------------------------------------------
\* RequestGovernanceObjectVotes
\* ---------------------------------------------------------------------------

\* Addresses (CService) of the connected peers.
PeerAddrs == {"a1", "a2", "a3", "a4"}
\* The objects of mapObjects the votes are requested for.
AskObjects ==
    (1 :> [type |-> "TRIGGER", fCachedDelete |-> FALSE])
        @@ (2 :> [type |-> "PROPOSAL", fCachedDelete |-> FALSE])
\* nTimeout = 60 * 60 seconds, in minutes.
nTimeout == 60
\* REALNET_PEERS_PER_HASH
REALNET_PEERS_PER_HASH == 3
\* The clock advances by AskTick minutes, AskTicks times at most.
AskTick == 45
AskTicks == 2
\* nMaxObjRequestsPerNode: 1 on mainnet, more on the smaller networks.
MaxObjRequests == {1, 2}
\* vNodesCopy: no peer, one peer (the overload for a single node) or all
\* peers in one of two orders.
NodeVectors ==
    {<<>>, <<"a1">>, <<"a4">>, <<"a1", "a2", "a3", "a4">>, <<"a3", "a4", "a1", "a2">>}
\* The peers the loop passes over for a reason of their own.
SkippedPeers == {{}, {"a2"}}

\* mapAskedRecently before the first call. An absent hash is written as a
\* hash with no entries: operator[] creates it empty on first use.
NoAskedRecently == [h \in DOMAIN AskObjects |-> <<>>]

\* The while loop of the first pass: entries with it->second < nNow are erased.
PruneAsked(entries, nNow) ==
    [a \in {x \in DOMAIN entries : ~(entries[x] < nNow)} |-> entries[a]]

\* The first pass over mapObjects: objects flagged for deletion are skipped,
\* the entries of every other hash are pruned.
AskFirstPass(map, objects, nNow) ==
    [h \in DOMAIN map |->
        IF h \in DOMAIN objects /\ ~objects[h].fCachedDelete
        THEN PruneAsked(map[h], nNow) ELSE map[h]]

\* The hashes the first pass pushes to vTriggerObjHashes (type TRIGGER) or
\* to vOtherObjHashes.
AskCandidates(map, objects, nNow, type, nPeersPerHashMax) ==
    {h \in DOMAIN objects :
        /\ ~objects[h].fCachedDelete
        /\ Cardinality(DOMAIN PruneAsked(map[h], nNow)) < nPeersPerHashMax
        /\ (objects[h].type = "TRIGGER") = (type = "TRIGGER")}

\* Shuffle(v.begin(), v.end(), FastRandomContext()): any order of the hashes.
Shuffles(hashes) ==
    {v \in UNION {[1..n -> hashes] : n \in {Cardinality(hashes)}} :
        \A i, j \in DOMAIN v : i # j => v[i] # v[j]}

\* The loop over vNodesCopy for one hash. st is the map, the requests sent
\* by this call and fAsked.
RECURSIVE AskNodesNoBreak(_, _, _, _, _, _)
AskNodesNoBreak(st, nHashGovobj, vNodesCopy, skipped, nNow, nPeersPerHashMax) ==
    IF vNodesCopy = <<>> THEN st
    ELSE LET pnode == Head(vNodesCopy)
         IN  IF pnode \in skipped \/ pnode \in DOMAIN st.map[nHashGovobj]
             THEN AskNodesNoBreak(st, nHashGovobj, Tail(vNodesCopy), skipped, nNow, nPeersPerHashMax)
             ELSE AskNodesNoBreak(
                      [map |-> [st.map EXCEPT ![nHashGovobj] =
                                   MapInsert(st.map[nHashGovobj], pnode, nNow + nTimeout)],
                       sent |-> Append(st.sent, [hash |-> nHashGovobj, addr |-> pnode]),
                       fAsked |-> TRUE],
                      nHashGovobj, Tail(vNodesCopy), skipped, nNow, nPeersPerHashMax)

\* A peer is passed over when it cannot relay, is an inbound connection of an
\* active masternode, has too many requests pending (skipped), or has an
\* entry for the hash. The loop stops when the hash has nPeersPerHashMax
\* entries.
RECURSIVE AskNodes(_, _, _, _, _, _)
AskNodes(st, nHashGovobj, vNodesCopy, skipped, nNow, nPeersPerHashMax) ==
    IF vNodesCopy = <<>> THEN st
    ELSE LET pnode == Head(vNodesCopy)
         IN  IF pnode \in skipped \/ pnode \in DOMAIN st.map[nHashGovobj]
             THEN AskNodes(st, nHashGovobj, Tail(vNodesCopy), skipped, nNow, nPeersPerHashMax)
             ELSE LET asked1 ==
                          [map |-> [st.map EXCEPT ![nHashGovobj] =
                                       MapInsert(st.map[nHashGovobj], pnode, nNow + nTimeout)],
                           sent |-> Append(st.sent, [hash |-> nHashGovobj, addr |-> pnode]),
                           fAsked |-> TRUE]
                  IN  IF Cardinality(DOMAIN asked1.map[nHashGovobj]) >= nPeersPerHashMax
                      THEN asked1
                      ELSE AskNodes(asked1, nHashGovobj, Tail(vNodesCopy), skipped, nNow,
                                    nPeersPerHashMax)

\* for (int i = 0; i < nMaxObjRequestsPerNode; ++i): triggers first, the hash
\* at the back of its vector; an iteration that asked nobody does not count.
RECURSIVE AskLoop(_, _, _, _, _, _, _, _, _)
AskLoop(st, vTriggerObjHashes, vOtherObjHashes, i, nMaxObjRequestsPerNode, vNodesCopy, skipped, nNow, nPeersPerHashMax) ==
    IF i >= nMaxObjRequestsPerNode THEN st
    ELSE IF vTriggerObjHashes = <<>> /\ vOtherObjHashes = <<>> THEN st
    ELSE LET fromTriggers == vTriggerObjHashes # <<>>
             nHashGovobj == IF fromTriggers
                            THEN vTriggerObjHashes[Len(vTriggerObjHashes)]
                            ELSE vOtherObjHashes[Len(vOtherObjHashes)]
             r == AskNodes([st EXCEPT !.fAsked = FALSE], nHashGovobj, vNodesCopy, skipped, nNow,
                           nPeersPerHashMax)
         IN  AskLoop(r,
                     IF fromTriggers
                     THEN SubSeq(vTriggerObjHashes, 1, Len(vTriggerObjHashes) - 1)
                     ELSE vTriggerObjHashes,
                     IF fromTriggers
                     THEN vOtherObjHashes
                     ELSE SubSeq(vOtherObjHashes, 1, Len(vOtherObjHashes) - 1),
                     IF r.fAsked THEN i + 1 ELSE i,
                     nMaxObjRequestsPerNode, vNodesCopy, skipped, nNow, nPeersPerHashMax)

\* CGovernanceManager::RequestGovernanceObjectVotes(vNodesCopy, connman, peerman)
\* on a chain that is not mockable: the map it leaves and the requests it sent.
RequestGovernanceObjectVotes(map, objects, vNodesCopy, skipped, nNow, nMaxObjRequestsPerNode, vTriggerObjHashes, vOtherObjHashes) ==
    IF vNodesCopy = <<>> THEN [map |-> map, sent |-> <<>>, fAsked |-> FALSE]
    ELSE IF DOMAIN objects = {} THEN [map |-> map, sent |-> <<>>, fAsked |-> FALSE]
    ELSE AskLoop([map |-> AskFirstPass(map, objects, nNow), sent |-> <<>>, fAsked |-> FALSE],
                 vTriggerObjHashes, vOtherObjHashes, 0, nMaxObjRequestsPerNode, vNodesCopy,
                 skipped, nNow, REALNET_PEERS_PER_HASH)

\* The times the vote requests for a hash went to a peer, oldest first.
NoRequests == [h \in DOMAIN AskObjects |-> [a \in PeerAddrs |-> <<>>]]

RECURSIVE LogRequests(_, _, _)
LogRequests(log, sent, nNow) ==
    IF sent = <<>> THEN log
    ELSE LogRequests([log EXCEPT ![Head(sent).hash][Head(sent).addr] = Append(@, nNow)],
                     Tail(sent), nNow)

InitAsk ==
    /\ InitIndex
    /\ llabs_min_neg = TRUE
    /\ calc = NoCalc
    /\ gov = NewGovernanceManager
    /\ now = StartTime
    /\ mn_sync = "synced"
    /\ tip_mn_list = MasternodeOutpoints
    /\ HandlersIdle
    /\ rate = NoRate /\ sb = NoSuperblock /\ glast = NoMsg
    /\ relay = RelayIdle /\ locks = LocksIdle /\ props = NoProps
    /\ asked = [mapObjects |-> AskObjects, mapAskedRecently |-> NoAskedRecently,
                sent |-> NoRequests]

\* RequestGovernanceObjectVotes is called for some peers.
AskCall ==
    /\ \E vNodesCopy \in NodeVectors, skipped \in SkippedPeers,
          nMaxObjRequestsPerNode \in MaxObjRequests :
          \E vTriggerObjHashes \in Shuffles(AskCandidates(asked.mapAskedRecently, asked.mapObjects,
                                                          now, "TRIGGER", REALNET_PEERS_PER_HASH)),
             vOtherObjHashes \in Shuffles(AskCandidates(asked.mapAskedRecently, asked.mapObjects,
                                                        now, "OTHER", REALNET_PEERS_PER_HASH)) :
             LET r == RequestGovernanceObjectVotes(asked.mapAskedRecently, asked.mapObjects,
                          vNodesCopy, skipped, now, nMaxObjRequestsPerNode,
                          vTriggerObjHashes, vOtherObjHashes)
             IN  asked' = [asked EXCEPT !.mapAskedRecently = r.map,
                                        !.sent = LogRequests(asked.sent, r.sent, now)]
    /\ UNCHANGED <<relay, locks, props, govVars, nonPlaneVars>>

\* An object is flagged for deletion.
AskCachedDelete ==
    /\ \E nHash \in DOMAIN asked.mapObjects :
          /\ ~asked.mapObjects[nHash].fCachedDelete
          /\ asked' = [asked EXCEPT !.mapObjects[nHash].fCachedDelete = TRUE]
    /\ UNCHANGED <<relay, locks, props, govVars, nonPlaneVars>>

\* Time passes.
AskClock ==
    /\ now < StartTime + AskTick * AskTicks
    /\ now' = now + AskTick
    /\ UNCHANGED <<gov, mn_sync, tip_mn_list, planeVars, nonPlaneVars>>

NextAsk ==
    \/ AskCall
    \/ AskCachedDelete
    \/ AskClock

SpecAsk == InitAsk /\ [][NextAsk]_vars

\* C27: on a chain that is not mockable, after any sequence of
\* RequestGovernanceObjectVotes calls every hash has at most 3 peers with an
\* entry of mapAskedRecently that has not expired, and two vote requests for
\* the same hash to the same peer are more than one hour (the lifetime of the
\* entry) apart.
C27_VoteRequestPacing ==
    \A h \in DOMAIN asked.mapAskedRecently :
        /\ Cardinality({a \in DOMAIN asked.mapAskedRecently[h] :
                            asked.mapAskedRecently[h][a] >= now}) <= 3
        /\ \A a \in PeerAddrs :
              \A i \in 1..(Len(asked.sent[h][a]) - 1) :
                  asked.sent[h][a][i + 1] > asked.sent[h][a][i] + 60

\* A hash has three peers asked within the hour while a fourth peer was
\* never asked, and one peer was asked a second time for that hash.
C27_Witness ==
    \E h \in DOMAIN asked.mapAskedRecently :
        /\ Cardinality({a \in DOMAIN asked.mapAskedRecently[h] :
                            asked.mapAskedRecently[h][a] >= now}) = 3
        /\ \E a \in PeerAddrs : asked.sent[h][a] = <<>>
        /\ \E a \in PeerAddrs : Len(asked.sent[h][a]) = 2


\* What the revalidation of the postponed objects leaves of the manager g
\* when the chain answers fee about the fee transactions.
PostponedRevalidated(g, after, fee, nNow, sync) ==
    IF sync # "synced"
    THEN after.mapPostponedObjects = g.mapPostponedObjects
    ELSE \A h \in DOMAIN g.mapPostponedObjects :
            IF fee[h] = "missing_confirmations"
            THEN /\ h \in DOMAIN after.mapPostponedObjects
                 /\ after.mapPostponedObjects[h] = g.mapPostponedObjects[h]
            ELSE IF fee[h] = "valid" /\ g.mapPostponedObjects[h].end_epoch > nNow
            THEN /\ h \notin DOMAIN after.mapPostponedObjects
                 /\ h \in DOMAIN after.mapObjects
                 /\ after.mapObjects[h].obj = g.mapPostponedObjects[h]
            ELSE /\ h \notin DOMAIN after.mapPostponedObjects
                 /\ h \in DOMAIN after.mapObjects => h \in DOMAIN g.mapObjects

\* C28: a tip advance on a synced node revalidates every postponed object:
\* one whose fee is confirmed and that is locally valid is in mapObjects and
\* no longer postponed afterwards, one whose fee still lacks confirmations
\* stays postponed unchanged, and one that fails otherwise is dropped without
\* entering mapObjects; on a node that is not synced mapPostponedObjects is
\* left as it is.
C28_PostponedRevalidated ==
    \A enforced \in BOOLEAN, fee \in [DOMAIN gov.mapPostponedObjects -> ChainAnswers] :
        PostponedRevalidated(gov,
            UpdatedBlockTipRun(gov, enforced, fee, now, mn_sync, tip_mn_list),
            fee, now, mn_sync)

\* A synced node holds two postponed objects; a tip advance moves one of them
\* to mapObjects and drops the other, which has ended.
C28_Witness ==
    /\ mn_sync = "synced"
    /\ Cardinality(DOMAIN gov.mapPostponedObjects) = 2
    /\ \E fee \in [DOMAIN gov.mapPostponedObjects -> {"valid"}] :
          LET after == UpdatedBlockTipRun(gov, FALSE, fee, now, mn_sync, tip_mn_list)
          IN  /\ after.mapPostponedObjects = <<>>
              /\ \E h \in DOMAIN gov.mapPostponedObjects :
                    h \in DOMAIN after.mapObjects \ DOMAIN gov.mapObjects
              /\ \E h \in DOMAIN gov.mapPostponedObjects : h \notin DOMAIN after.mapObjects

\* A node that is not synced holds a postponed object.
C28_WitnessNotSynced ==
    /\ mn_sync # "synced"
    /\ gov.mapPostponedObjects # <<>>


\* The i-th transaction of the last block asks for the transfer of the point
\* that the j-th transaction of the block creates.
TransfersCreationOf(i, j) ==
    /\ i # j
    /\ IsCreation(last.vtx[j])
    /\ ~last.vtx[i].coinbase
    /\ FirstPayload(last.vtx[i].vout) = BuildTransferPayload(last.vtx[j].txid)

\* The record of a transfer is as the store held it before the last block.
RecordUntouched(k) ==
    IF k \in DOMAIN last.before.t
    THEN k \in DOMAIN db.t /\ db.t[k] = last.before.t[k]
    ELSE k \notin DOMAIN db.t

\* The transaction at n moves the point created at j away from owner: it asks
\* for the transfer, spends an output of owner and names another new owner.
MovesFrom(n, j, owner) ==
    /\ TransfersCreationOf(n, j)
    /\ \E m \in 1..Len(last.vtx[n].prevouts) :
          /\ last.vtx[n].prevouts[m].spendable
          /\ last.vtx[n].prevouts[m].dest = owner
    /\ FirstDestination(last.vtx[n].vout) \notin {"", owner}

\* The owner in the pending record of the creation at j when the transaction
\* at i is reached, the record naming owner when the transaction at n is
\* reached: every transfer in between that moves the point changes it.
RECURSIVE PendingOwnerFrom(_, _, _, _)
PendingOwnerFrom(n, i, j, owner) ==
    IF n >= i THEN owner
    ELSE PendingOwnerFrom(n + 1, i, j,
             IF MovesFrom(n, j, owner) THEN FirstDestination(last.vtx[n].vout) ELSE owner)

PendingOwnerAt(i, j) == PendingOwnerFrom(j + 1, i, j, FirstDestination(last.vtx[j].vout))

\* The transfer at i was judged against the pending record of the creation at
\* j: if it spends an output of that record's owner and names another new
\* owner, the store holds its record, of this height and with that owner as
\* previous owner; if not, the block wrote no record for it.
EvaluatedAgainstPending(i, j) ==
    LET k == [origin |-> last.vtx[j].txid, transfer |-> last.vtx[i].txid]
        owner == PendingOwnerAt(i, j)
    IN  IF MovesFrom(i, j, owner)
        THEN /\ k \in DOMAIN db.t
             /\ db.t[k] = [height |-> last.height, new_owner |-> FirstDestination(last.vtx[i].vout),
                           previous_owner |-> owner]
        ELSE RecordUntouched(k)

\* C29: a transfer of a point that is created in the same block is judged
\* against the pending record of that creation, whether the creation stands
\* before or after the transfer in the block.
C29_CreationsBeforeTransfers ==
    Written =>
        \A i, j \in 1..Len(last.vtx) :
            TransfersCreationOf(i, j) => EvaluatedAgainstPending(i, j)

\* C29, amended: a transfer of a point that is created in the same block is
\* judged against the pending record of that creation if the creation stands
\* before the transfer in the block; a transfer that stands before the
\* creation of its point gets no record unless the store already held the
\* point before the block.
C29_EarlierCreationsBeforeTransfers ==
    Written =>
        \A i, j \in 1..Len(last.vtx) :
            TransfersCreationOf(i, j) =>
                IF j < i THEN EvaluatedAgainstPending(i, j)
                ELSE last.vtx[j].txid \notin DOMAIN last.before.p
                        => RecordUntouched([origin |-> last.vtx[j].txid,
                                            transfer |-> last.vtx[i].txid])

\* A block created a point and, after the creation, moved it to a new owner.
C29_Witness ==
    /\ Written
    /\ \E i, j \in 1..Len(last.vtx) :
          /\ j < i
          /\ TransfersCreationOf(i, j)
          /\ [origin |-> last.vtx[j].txid, transfer |-> last.vtx[i].txid] \in NewTransfers

\* A block asked for the transfer of a point before the transaction that
\* creates it, by a transaction that spends an output of the creation's owner.
C29_WitnessTransferFirst ==
    /\ Written
    /\ \E i, j \in 1..Len(last.vtx) :
          /\ i < j
          /\ TransfersCreationOf(i, j)
          /\ last.vtx[j].txid \in DOMAIN db.p
          /\ \E n \in 1..Len(last.vtx[i].prevouts) :
                last.vtx[i].prevouts[n].dest = FirstDestination(last.vtx[j].vout)


\* The last call selected a superblock: GetBestSuperblock or
\* GetSuperblockPayments returned true.
Selected ==
    /\ sb.op \in {"GetBestSuperblock", "GetSuperblockPayments"}
    /\ sb.ret

\* The triggers that may be selected for the height of the last call: of
\* that height, funded according to the cached flag, with a positive
\* absolute YES count.
FundedCandidates ==
    {h \in DOMAIN sb.mapTrigger :
        /\ sb.mapTrigger[h].nBlockHeight = sb.call
        /\ sb.mapTrigger[h].fCachedFunding
        /\ Cardinality({o \in tip_mn_list : sb.mapTrigger[h].funding[o] = "yes"})
              > Cardinality({o \in tip_mn_list : sb.mapTrigger[h].funding[o] = "no"})}

\* C30: the trigger selected as best superblock for a height is a trigger of
\* that height whose object has the cached funding flag set and a positive
\* YES count; when there is no such trigger the call returns false and
\* GetSuperblockPayments leaves the output list as it was.
C30_SelectedIsFundedCandidate ==
    sb.op \in {"GetBestSuperblock", "GetSuperblockPayments"} =>
        /\ sb.ret => sb.pSuperblockRet \in FundedCandidates
        /\ FundedCandidates = {} =>
              /\ ~sb.ret
              /\ sb.op = "GetSuperblockPayments" => sb.voutRet = sb.voutIn

\* Apart from the funding flag: the selected trigger is of the height asked
\* for and has a positive YES count, and a call that selects nothing returns
\* false and leaves the output list as it was.
SelectedHasHeightAndVotes ==
    sb.op \in {"GetBestSuperblock", "GetSuperblockPayments"} =>
        /\ sb.ret =>
              /\ sb.pSuperblockRet \in DOMAIN sb.mapTrigger
              /\ sb.mapTrigger[sb.pSuperblockRet].nBlockHeight = sb.call
              /\ GetAbsoluteYesCount(sb.mapTrigger[sb.pSuperblockRet], tip_mn_list) > 0
        /\ ~sb.ret => sb.voutRet = sb.voutIn

\* A trigger below the quorum, its flag refreshed and not set, was selected.
SelectedUnfunded ==
    /\ Selected
    /\ sb.nSilent = 18
    /\ ~sb.mapTrigger[sb.pSuperblockRet].fCachedFunding
    /\ UpdateSentinelVariables(sb.mapTrigger[sb.pSuperblockRet], tip_mn_list, sb.nSilent)
          = sb.mapTrigger[sb.pSuperblockRet]

\* The orphan-cache entries whose parent is a key of objects.
OrphansOfKnownObjects ==
    {i \in 1..Len(gov.cmmapOrphanVotes) : gov.cmmapOrphanVotes[i].key \in DOMAIN gov.mapObjects}

\* C31: after every completed operation the orphan cache holds no vote whose
\* parent is in objects; when an object arrives every orphan vote queued for
\* it leaves the cache, whether it was applied, failed or had expired.
C31_NoOrphanOfKnownObject == OrphansOfKnownObjects = {}

\* Every orphan vote queued for the object of the last GOVOBJ that was
\* unexpired, well signed and of a listed masternode left the cache.
AppliedOrphansLeave ==
    \A i \in DrainedOrphans :
        ~\E j \in 1..Len(glast.after.cmmapOrphanVotes) :
            glast.after.cmmapOrphanVotes[j] = glast.before.cmmapOrphanVotes[i]

\* ---------------------------------------------------------------------------
\* The forced rate check of ProcessMessage
\* ---------------------------------------------------------------------------

\* ProcessMessage, GOVOBJ of a requested, unseen trigger: the score of the
\* MisbehavingError in the result (0: none).
RateObjectError(r, govobj, fIsValid, nNow, sync) ==
    IF ~MasternodeRateCheck(r.mapLastMasternodeObject, govobj, TRUE, FALSE, nNow, sync, TRUE).ok
    THEN 0
    ELSE IF /\ MasternodeRateCheck(r.mapLastMasternodeObject, govobj, TRUE, FALSE, nNow, sync, TRUE).fRateCheckBypassed
            /\ fIsValid
            /\ ~MasternodeRateCheck(r.mapLastMasternodeObject, govobj, TRUE, TRUE, nNow, sync, TRUE).ok
    THEN 0
    ELSE IF ~fIsValid THEN 20
    ELSE 0

\* The trigger govobj, handled now, is added to the objects.
Enters(govobj, fIsValid) ==
    RateAfterObject(rate, govobj, fIsValid, now, mn_sync).admitted = Append(rate.admitted, govobj)

\* The first rate check of govobj, handled now, is bypassed.
Bypassed(govobj) ==
    MasternodeRateCheck(rate.mapLastMasternodeObject, govobj, TRUE, FALSE, now, mn_sync, TRUE).fRateCheckBypassed

\* The rate check of govobj with fForce set accepts it now.
ForcedAccepts(govobj) ==
    MasternodeRateCheck(rate.mapLastMasternodeObject, govobj, TRUE, TRUE, now, mn_sync, TRUE).ok

\* C32: on a synced node a trigger received by GOVOBJ from a masternode with
\* a rate record enters the objects only if the rate check with the rate
\* computed (not bypassed) accepts it; when the first check is bypassed and
\* the object is valid, a failing forced check drops the object: it is not
\* stored, the result carries no penalty and no rate buffer changes.
C32_ForcedRateCheckDecides ==
    \A govobj \in TriggerUniverse, fIsValid \in BOOLEAN :
        (mn_sync = "synced" /\ govobj.outpoint \in DOMAIN rate.mapLastMasternodeObject) =>
            /\ Enters(govobj, fIsValid) => ForcedAccepts(govobj)
            /\ (Bypassed(govobj) /\ fIsValid /\ ~ForcedAccepts(govobj)) =>
                  /\ RateAfterObject(rate, govobj, fIsValid, now, mn_sync).admitted = rate.admitted
                  /\ RateObjectError(rate, govobj, fIsValid, now, mn_sync) = 0
                  /\ \A o \in DOMAIN rate.mapLastMasternodeObject :
                        RateAfterObject(rate, govobj, fIsValid, now, mn_sync)
                            .mapLastMasternodeObject[o].triggerBuffer
                          = rate.mapLastMasternodeObject[o].triggerBuffer

\* A masternode with triggers among the objects had a valid trigger dropped
\* by the forced check (its status is not OK), and a further trigger of it is
\* bypassed by no check now.
C32_Witness ==
    \E o \in DOMAIN rate.mapLastMasternodeObject :
        /\ ~rate.mapLastMasternodeObject[o].fStatusOK
        /\ \E i \in 1..Len(rate.admitted) : rate.admitted[i].outpoint = o
        /\ \A govobj \in TriggerUniverse : govobj.outpoint = o => ~Bypassed(govobj)

\* A valid trigger of a masternode with status OK is about to be dropped by
\* the forced check.
C32_WitnessBypassedThenDropped ==
    \E govobj \in TriggerUniverse :
        Bypassed(govobj) /\ ~ForcedAccepts(govobj) /\ ~Enters(govobj, TRUE)

\* ---------------------------------------------------------------------------
\* The purge of invalid votes on a new tip
\* ---------------------------------------------------------------------------

\* The inventories peers announce: proposal 2 and the votes on it.
PurgeInvs ==
    {[type |-> MSG_GOVERNANCE_OBJECT, hash |-> 2]} \cup
    {[type |-> MSG_GOVERNANCE_OBJECT_VOTE, hash |-> v.hash] : v \in PurgeVotes}

InitPurge ==
    /\ InitIndex
    /\ llabs_min_neg = TRUE
    /\ calc = NoCalc
    /\ gov = NewGovernanceManager
    /\ now = StartTime
    /\ mn_sync \in {"blockchain", "synced"}
    /\ tip_mn_list = MasternodeOutpoints
    /\ HandlersIdle
    /\ RateIdle

\* A peer announces an inventory.
PurgeInv ==
    /\ Cardinality(DOMAIN gov.m_requested_hash_time) < MaxRequested
    /\ \E inv \in PurgeInvs : gov' = ConfirmInventoryRequest(gov, inv, now, mn_sync)
    /\ glast' = NoMsg
    /\ UNCHANGED <<now, mn_sync, tip_mn_list, nonMsgVars>>

\* A peer sends GOVOBJ with proposal 2.
PurgeObject ==
    /\ Len(gov.m_relay_invs) < MaxRelayQueue
    /\ gov' = ProcessMessageObject(gov, GovObject(2, INT64_MAX_TIME), "valid", now, mn_sync, tip_mn_list)
    /\ glast' = NoMsg
    /\ UNCHANGED <<now, mn_sync, tip_mn_list, nonMsgVars>>

\* A peer sends GOVVOTE.
PurgeVote ==
    /\ Len(gov.m_relay_invs) < MaxRelayQueue
    /\ \E vote \in PurgeVotes : gov' = ProcessMessageVote(gov, vote, now, mn_sync, tip_mn_list)
    /\ glast' = NoMsg
    /\ UNCHANGED <<now, mn_sync, tip_mn_list, nonMsgVars>>

\* The clock advances.
PurgeTick ==
    /\ now < StartTime + MaxTicks * TickMinutes
    /\ now' = now + TickMinutes
    /\ glast' = NoMsg
    /\ UNCHANGED <<gov, mn_sync, tip_mn_list, nonMsgVars>>

\* The masternode sync finishes.
PurgeSynced ==
    /\ mn_sync = "blockchain"
    /\ mn_sync' = "synced"
    /\ glast' = NoMsg
    /\ UNCHANGED <<gov, now, tip_mn_list, nonMsgVars>>

\* A block is connected in which a masternode leaves the list.
PurgeConnectBlock ==
    /\ \E outpoint \in tip_mn_list : tip_mn_list' = tip_mn_list \ {outpoint}
    /\ glast' = NoMsg
    /\ UNCHANGED <<gov, now, mn_sync, nonMsgVars>>

\* The validation interface reports the new tip.
PurgeUpdatedBlockTip ==
    /\ Len(gov.m_relay_invs) < MaxRelayQueue
    /\ \E enforced \in BOOLEAN :
          /\ gov' = UpdatedBlockTipRun(gov, enforced, <<>>, now, mn_sync, tip_mn_list)
          /\ glast' = [op |-> "UpdatedBlockTip", enforced |-> enforced, before |-> gov, after |-> gov']
    /\ UNCHANGED <<now, mn_sync, tip_mn_list, nonMsgVars>>

\* The relay job of Schedule.
PurgeRelayJob ==
    /\ gov.m_relay_invs # <<>>
    /\ gov' = [gov EXCEPT !.m_relay_invs = <<>>]
    /\ glast' = NoMsg
    /\ UNCHANGED <<now, mn_sync, tip_mn_list, nonMsgVars>>

NextPurge ==
    \/ PurgeInv
    \/ PurgeObject
    \/ PurgeVote
    \/ PurgeTick
    \/ PurgeSynced
    \/ PurgeConnectBlock
    \/ PurgeUpdatedBlockTip
    \/ PurgeRelayJob

SpecPurge == InitPurge /\ [][NextPurge]_vars

\* The vote hashes the last tip update evicted from the objects: the votes in
\* a vote file of masternodes of the saved list that are not in the tip list.
Evicted ==
    {h \in UNION {glast.before.mapObjects[k].fileVotes : k \in DOMAIN glast.before.mapObjects} :
        VoteOf(h).outpoint \in glast.before.lastMNListForVotingKeys \ tip_mn_list}

\* The vote hash h is in none of the four indexes.
Purged(g, h) ==
    /\ ~CacheHasKey(g.cmapVoteToObject, h)
    /\ ~CacheHasKey(g.cmapInvalidVotes, h)
    /\ ~\E i \in 1..Len(g.cmmapOrphanVotes) : g.cmmapOrphanVotes[i].value.vote.hash = h
    /\ h \notin DOMAIN g.m_requested_hash_time

\* C33: after a tip update past the enforcement height on a synced node no
\* vote hash evicted from an object remains in the vote index, the cache of
\* invalid votes, the orphan cache or the request list, and the saved
\* masternode list equals the tip list; on a node that is not synced the tip
\* update changes neither the indexes nor the saved list.
C33_InvalidVotePurge ==
    glast.op = "UpdatedBlockTip" =>
        /\ (glast.enforced /\ mn_sync = "synced") =>
              /\ \A h \in Evicted : Purged(glast.after, h)
              /\ glast.after.lastMNListForVotingKeys = tip_mn_list
        /\ mn_sync # "synced" => glast.after = glast.before

\* C33 without the orphan cache: the evicted vote hashes are in no vote file,
\* not in the vote index, the cache of invalid votes or the request list.
PurgedButOrphans ==
    (glast.op = "UpdatedBlockTip" /\ glast.enforced /\ mn_sync = "synced") =>
        /\ \A h \in Evicted :
              /\ \A k \in DOMAIN glast.after.mapObjects : h \notin glast.after.mapObjects[k].fileVotes
              /\ ~CacheHasKey(glast.after.cmapVoteToObject, h)
              /\ ~CacheHasKey(glast.after.cmapInvalidVotes, h)
              /\ h \notin DOMAIN glast.after.m_requested_hash_time
        /\ glast.after.lastMNListForVotingKeys = tip_mn_list

\* A tip update evicted a vote of a masternode that left the list.
EvictedSome ==
    glast.op = "UpdatedBlockTip" /\ glast.enforced /\ mn_sync = "synced" /\ Evicted # {}

\* ---------------------------------------------------------------------------
\* The trigger views: AddNewTrigger, CleanAndRemoveTriggers, CheckAndRemove,
\* Clear and GetActiveTriggers.  sb holds the objects, the trigger views, the
\* erased hashes and the cached block height.
\* ---------------------------------------------------------------------------

\* The triggers peers send: both for the superblock at height 10.
TriggerObjects ==
    {[hash |-> h, type |-> "TRIGGER", nBlockHeight |-> 10, nTime |-> StartTime] : h \in {1, 2}}
\* The cached block height at the start and the last height connected.
FirstHeight == 9
LastHeight == 12
\* Blocks a trigger that was not executed is kept after its superblock height.
ValidTriggerBlocks == 1
\* Minutes between two runs of the maintenance job, and the runs followed.
MaintenanceMinutes == 5
MaxMaintenanceTicks == 3

\* The manager with no object and no trigger view.
NoTriggers ==
    [mapObjects |-> <<>>, mapTrigger |-> <<>>, mapErasedGovernanceObjects |-> <<>>,
     nCachedBlockHeight |-> FirstHeight]

\* CSuperblock::IsExpired
IsExpired(pSuperblock, heightToTest) ==
    IF pSuperblock.nStatus = "Executed"
    THEN heightToTest > pSuperblock.nBlockHeight + nSuperblockCycle
    ELSE IF pSuperblock.nStatus = "Valid"
    THEN heightToTest > pSuperblock.nBlockHeight + ValidTriggerBlocks
    ELSE TRUE

\* CGovernanceManager::AddNewTrigger: the value it returns and the manager
\* it leaves.
AddNewTrigger(s, nHash) ==
    IF nHash \in DOMAIN s.mapTrigger THEN [ok |-> FALSE, s |-> s]
    ELSE IF nHash \notin DOMAIN s.mapObjects THEN [ok |-> FALSE, s |-> s]
    ELSE [ok |-> ~IsExpired([nStatus |-> "Valid",
                             nBlockHeight |-> s.mapObjects[nHash].obj.nBlockHeight],
                            s.nCachedBlockHeight),
          s |-> [s EXCEPT !.mapTrigger =
                    MapInsert(@, nHash, [nStatus |-> "Valid",
                                         nBlockHeight |-> s.mapObjects[nHash].obj.nBlockHeight])]]

\* AddGovernanceObject after the object was inserted, given the outcome r of
\* AddNewTrigger.
AddedTrigger(r, nHash, nNow) ==
    IF ~r.ok THEN [r.s EXCEPT !.mapObjects[nHash] = PrepareDeletion(@, nNow)]
    ELSE r.s

\* CGovernanceManager::AddGovernanceObject of a valid trigger.
AddTriggerObject(s, govobj, nNow) ==
    IF govobj.hash \in DOMAIN s.mapObjects THEN s
    ELSE AddedTrigger(
            AddNewTrigger([s EXCEPT !.mapObjects = MapInsert(@, govobj.hash, StoredObject(govobj))],
                          govobj.hash),
            govobj.hash, nNow)

\* CleanAndRemoveTriggers: the backing object of the entry is missing or is
\* no trigger, so that the status of the superblock is set to ErrorInvalid.
UnknownOrNonTrigger(s, nHash) ==
    \/ nHash \notin DOMAIN s.mapObjects
    \/ s.mapObjects[nHash].obj.type # "TRIGGER"

\* CleanAndRemoveTriggers: the entry is expired and its object is flagged so.
SetsExpired(s, nHash) ==
    /\ ~UnknownOrNonTrigger(s, nHash)
    /\ s.mapTrigger[nHash].nStatus \in {"Valid", "Executed"}
    /\ IsExpired(s.mapTrigger[nHash], s.nCachedBlockHeight)

\* CleanAndRemoveTriggers: the entry is marked for removal.
RemovesTrigger(s, nHash) ==
    \/ UnknownOrNonTrigger(s, nHash)
    \/ s.mapTrigger[nHash].nStatus \in {"ErrorInvalid", "Unknown"}
    \/ SetsExpired(s, nHash)

\* CleanAndRemoveTriggers that erases the entries and leaves the objects alone.
CleanAndRemoveTriggersUnmarked(s, nNow) ==
    [s EXCEPT !.mapTrigger = [h \in {k \in DOMAIN @ : ~RemovesTrigger(s, k)} |-> @[h]]]

\* CGovernanceManager::CleanAndRemoveTriggers
CleanAndRemoveTriggers(s, nNow) ==
    [s EXCEPT
        !.mapTrigger = [h \in {k \in DOMAIN @ : ~RemovesTrigger(s, k)} |-> @[h]],
        !.mapObjects = [h \in DOMAIN @ |->
            IF h \in DOMAIN s.mapTrigger /\ RemovesTrigger(s, h)
            THEN PrepareDeletion([@[h] EXCEPT !.fExpired = IF SetsExpired(s, h) THEN TRUE ELSE @],
                                 nNow)
            ELSE @[h]]]

\* CheckAndRemove after CleanAndRemoveTriggers: the flagged objects whose
\* deletion delay has passed are erased and their hashes kept for two
\* superblock cycles and the deletion delay; old erased hashes are swept.
EraseFlagged(s, nNow) ==
    [s EXCEPT
        !.mapObjects = [h \in {k \in DOMAIN @ : ~Removable(@[k], nNow)} |-> @[h]],
        !.mapErasedGovernanceObjects =
            [h \in {k \in DOMAIN @ : ~(@[k] < nNow)} \cup
                   {k \in DOMAIN s.mapObjects : Removable(s.mapObjects[k], nNow)} |->
                IF h \in DOMAIN @ THEN @[h]
                ELSE s.mapObjects[h].obj.nTime + 2 * nSuperblockCycleSeconds
                        + GOVERNANCE_DELETION_DELAY]]

\* CGovernanceManager::CheckAndRemove on a manager with triggers.
CheckAndRemoveTriggers(s, nNow) == EraseFlagged(CleanAndRemoveTriggers(s, nNow), nNow)

\* CGovernanceManager::GetActiveTriggersInternal: the hashes of the
\* superblocks returned.
GetActiveTriggersInternal(s) == {h \in DOMAIN s.mapTrigger : h \in DOMAIN s.mapObjects}

\* CGovernanceManager::ExecuteBestSuperblock, given the trigger that
\* GetBestSuperblockInternal selected (0: none).
ExecuteBestSuperblock(s, pSuperblock) ==
    IF pSuperblock = 0 THEN s
    ELSE [s EXCEPT !.mapTrigger[pSuperblock].nStatus = "Executed"]

\* GovernanceStore::Clear and CGovernanceManager::Clear
Clear(s) == [s EXCEPT !.mapObjects = <<>>, !.mapErasedGovernanceObjects = <<>>]

InitTriggers ==
    /\ InitIndex
    /\ llabs_min_neg = TRUE
    /\ calc = NoCalc
    /\ gov = NewGovernanceManager
    /\ now = StartTime
    /\ mn_sync = "synced"
    /\ tip_mn_list = MasternodeOutpoints
    /\ HandlersIdle
    /\ rate = NoRate
    /\ sb = NoTriggers
    /\ glast = NoMsg
    /\ PlanesIdle

\* A peer sends GOVOBJ with a valid trigger that was not seen before.
TriggerObjectReceived ==
    /\ \E govobj \in TriggerObjects :
          /\ govobj.hash \notin DOMAIN sb.mapObjects \cup DOMAIN sb.mapErasedGovernanceObjects
          /\ sb' = AddTriggerObject(sb, govobj, now)
    /\ glast' = NoMsg
    /\ UNCHANGED <<rate, govVars, indexVars, coordVars, handlerVars, planeVars>>

\* The validation interface reports the next tip; the trigger that the votes
\* select for the height, if any, is executed.
TriggerUpdatedBlockTip ==
    /\ sb.nCachedBlockHeight < LastHeight
    /\ \E pSuperblock \in {0} \cup
            {h \in GetActiveTriggersInternal(sb) :
                /\ IsValidBlockHeight(sb.nCachedBlockHeight + 1)
                /\ sb.mapTrigger[h].nBlockHeight = sb.nCachedBlockHeight + 1} :
          sb' = ExecuteBestSuperblock([sb EXCEPT !.nCachedBlockHeight = @ + 1], pSuperblock)
    /\ glast' = NoMsg
    /\ UNCHANGED <<rate, govVars, indexVars, coordVars, handlerVars, planeVars>>

\* The five-minute job of Schedule.
TriggerMaintenance ==
    /\ mn_sync = "synced"
    /\ sb' = CheckAndRemoveTriggers(sb, now)
    /\ glast' = [op |-> "CheckAndRemove", before |-> sb, after |-> sb']
    /\ UNCHANGED <<rate, govVars, indexVars, coordVars, handlerVars, planeVars>>

\* The manager is cleared.
TriggerClear ==
    /\ sb' = Clear(sb)
    /\ glast' = [op |-> "Clear", before |-> sb, after |-> sb']
    /\ UNCHANGED <<rate, govVars, indexVars, coordVars, handlerVars, planeVars>>

\* The clock advances.
TriggerTick ==
    /\ now < StartTime + MaxMaintenanceTicks * MaintenanceMinutes
    /\ now' = now + MaintenanceMinutes
    /\ glast' = NoMsg
    /\ UNCHANGED <<rate, sb, gov, mn_sync, tip_mn_list, indexVars, coordVars, handlerVars, planeVars>>

NextTriggers ==
    \/ TriggerObjectReceived
    \/ TriggerUpdatedBlockTip
    \/ TriggerMaintenance
    \/ TriggerClear
    \/ TriggerTick

SpecTriggers == InitTriggers /\ [][NextTriggers]_vars

\* The entry of the trigger view is one that maintenance has to remove: its
\* object is absent or no trigger, or its superblock is expired at the cached
\* block height.
HasToGo(nHash) ==
    \/ nHash \notin DOMAIN sb.mapObjects
    \/ sb.mapObjects[nHash].obj.type # "TRIGGER"
    \/ IsExpired(sb.mapTrigger[nHash], sb.nCachedBlockHeight)

\* After the cleanup r the entry is gone and its object, when present, is
\* flagged for deletion, and flagged expired when the superblock is expired.
GoneAndMarked(r, nHash) ==
    /\ nHash \notin DOMAIN r.mapTrigger
    /\ nHash \in DOMAIN sb.mapObjects =>
          /\ r.mapObjects[nHash].fCachedDelete
          /\ (/\ sb.mapObjects[nHash].obj.type = "TRIGGER"
              /\ IsExpired(sb.mapTrigger[nHash], sb.nCachedBlockHeight))
                => r.mapObjects[nHash].fExpired

\* After the cleanup r the entry and its object are as they were.
LeftAlone(r, nHash) ==
    /\ nHash \in DOMAIN r.mapTrigger
    /\ r.mapTrigger[nHash] = sb.mapTrigger[nHash]
    /\ r.mapObjects[nHash] = sb.mapObjects[nHash]

\* C34: a maintenance run removes from the trigger views every entry whose
\* object is absent, is no trigger or whose superblock is expired at the
\* cached block height, and marks the object (when present) for deletion with
\* the deletion time now, an expired one also as expired; the other entries
\* stay with their objects untouched.
C34_TriggerCleanup ==
    \A nHash \in DOMAIN sb.mapTrigger :
        IF HasToGo(nHash)
        THEN /\ GoneAndMarked(CleanAndRemoveTriggers(sb, now), nHash)
             /\ nHash \in DOMAIN sb.mapObjects =>
                   CleanAndRemoveTriggers(sb, now).mapObjects[nHash].nDeletionTime = now
        ELSE LeftAlone(CleanAndRemoveTriggers(sb, now), nHash)

\* C34, amended: as above, but an object that already has a deletion time
\* keeps it, and only an object without one gets the deletion time now.
C34_TriggerCleanupKeepsFirstMark ==
    \A nHash \in DOMAIN sb.mapTrigger :
        IF HasToGo(nHash)
        THEN /\ GoneAndMarked(CleanAndRemoveTriggers(sb, now), nHash)
             /\ nHash \in DOMAIN sb.mapObjects =>
                   CleanAndRemoveTriggers(sb, now).mapObjects[nHash].nDeletionTime =
                      IF sb.mapObjects[nHash].nDeletionTime = 0 THEN now
                      ELSE sb.mapObjects[nHash].nDeletionTime
        ELSE LeftAlone(CleanAndRemoveTriggers(sb, now), nHash)

\* A maintenance run removed the view of an expired trigger and marked its
\* object, which had no deletion time, while it left another view alone.
C34_Witness ==
    /\ glast.op = "CheckAndRemove"
    /\ \E nHash \in DOMAIN glast.before.mapTrigger \cap DOMAIN glast.after.mapObjects :
          /\ nHash \notin DOMAIN glast.after.mapTrigger
          /\ glast.before.mapObjects[nHash].nDeletionTime = 0
          /\ glast.after.mapObjects[nHash].fExpired
          /\ glast.after.mapObjects[nHash].nDeletionTime = now
    /\ DOMAIN glast.after.mapTrigger # {}

\* A maintenance run removed the view of a trigger whose object had been
\* marked for deletion before.
C34_WitnessMarkedBefore ==
    /\ glast.op = "CheckAndRemove"
    /\ \E nHash \in DOMAIN glast.before.mapTrigger \cap DOMAIN glast.after.mapObjects :
          /\ nHash \notin DOMAIN glast.after.mapTrigger
          /\ glast.before.mapObjects[nHash].nDeletionTime # 0
          /\ glast.after.mapObjects[nHash].nDeletionTime < now

\* C35: after every completed operation the trigger views hold no entry
\* whose object is absent from the objects, and GetActiveTriggers returns no
\* superblock whose object is absent.
C35_TriggerViewLifetime ==
    /\ DOMAIN sb.mapTrigger \subseteq DOMAIN sb.mapObjects
    /\ GetActiveTriggersInternal(sb) \subseteq DOMAIN sb.mapObjects

\* GetActiveTriggers returns only superblocks whose object is in the objects.
ActiveTriggersHaveObjects ==
    /\ GetActiveTriggersInternal(sb) \subseteq DOMAIN sb.mapObjects
    /\ \A h \in DOMAIN sb.mapTrigger \cap DOMAIN sb.mapObjects : h \in GetActiveTriggersInternal(sb)

\* A view outlived its object after Clear; after a maintenance run.
ViewOutlivesClear ==
    glast.op = "Clear" /\ ~(DOMAIN sb.mapTrigger \subseteq DOMAIN sb.mapObjects)
ViewOutlivesMaintenance ==
    /\ glast.op = "CheckAndRemove"
    /\ DOMAIN glast.before.mapTrigger \subseteq DOMAIN glast.before.mapObjects
    /\ ~(DOMAIN sb.mapTrigger \subseteq DOMAIN sb.mapObjects)

\* ---------------------------------------------------------------------------
\* The queries by height and by owner
\* ---------------------------------------------------------------------------

\* std::numeric_limits<int>::max(), the default of to_height; the largest
\* uint32_t is taken to be the same number, above every height of a block.
IntMax == 2147483647

\* MapPointIndex::DB::MakeInfo
MakeInfo(txid, record) ==
    [origin_txid |-> txid, origin_height |-> record.height, origin_owner |-> record.origin_owner,
     current_owner |-> record.current_owner, encoded_lat |-> record.encoded_lat,
     encoded_lon |-> record.encoded_lon]

\* The loop of ReadByHeight over the cursor: it ends at the first key above stop.
RECURSIVE ReadByHeightWalk(_, _, _, _)
ReadByHeightWalk(d, keys, stop, out) ==
    IF keys = <<>> THEN out
    ELSE IF Head(keys).height > stop THEN out
    ELSE ReadByHeightWalk(d, Tail(keys), stop,
            IF Head(keys).txid \in DOMAIN d.p
            THEN Append(out, MakeInfo(Head(keys).txid, d.p[Head(keys).txid]))
            ELSE out)

\* MapPointIndex::DB::ReadByHeight
ReadByHeight(d, start, stop) ==
    ReadByHeightWalk(d, HeightCursor(d.h, [height |-> start, txid |-> NoTxid]), stop, <<>>)

\* MapPointIndex::GetPointsInHeightRange
GetPointsInHeightRange(d, from_height, to_height) ==
    ReadByHeight(d, IF from_height < 0 THEN 0 ELSE from_height,
                 IF to_height < 0 THEN IntMax ELSE to_height)

\* RPC listmappoints: the points of the reply (SortPoints only reorders
\* them), or the error of ParseHeightParams.
listmappoints(d, from, to) ==
    IF to < from THEN [error |-> TRUE, points |-> {}]
    ELSE [error |-> FALSE,
          points |-> {GetPointsInHeightRange(d, from, to)[i] :
                        i \in 1..Len(GetPointsInHeightRange(d, from, to))}]

\* The bounds a caller passes: none (0 and the largest int) or heights of
\* the chain.
QueryHeights == {0, IntMax} \cup (StartHeight + 1 .. StartHeight + MaxBlocks)

\* The persisted points created at a height from .. to.
PointsCreatedIn(from, to) ==
    {MakeInfo(txid, db.p[txid]) : txid \in {t \in DOMAIN db.p : from <= db.p[t].height /\ db.p[t].height <= to}}

\* C36: listmappoints(from, to) returns exactly the persisted points whose
\* creation height is at least from and at most to, for every pair of bounds
\* and every content of the store.
C36_HeightRangeQuery ==
    \A from \in QueryHeights, to \in QueryHeights :
        from <= to =>
            /\ ~listmappoints(db, from, to).error
            /\ listmappoints(db, from, to).points = PointsCreatedIn(from, to)


(***************************************************************************)
(* Membership of an object hash in mapObjects, mapPostponedObjects and     *)
(* mapErasedGovernanceObjects.                                             *)
(***************************************************************************)

\* The hashes the manager has seen, as the test at the head of the GOVOBJ
\* handler reads them.
SeenHashes(g) ==
    DOMAIN g.mapObjects \cup DOMAIN g.mapPostponedObjects \cup DOMAIN g.mapErasedGovernanceObjects

\* No hash is in two of the three maps.
ExclusiveMembership(g) ==
    /\ DOMAIN g.mapObjects \cap DOMAIN g.mapPostponedObjects = {}
    /\ DOMAIN g.mapObjects \cap DOMAIN g.mapErasedGovernanceObjects = {}
    /\ DOMAIN g.mapPostponedObjects \cap DOMAIN g.mapErasedGovernanceObjects = {}

\* The three maps of two managers are the same.
SameMembership(g, h) ==
    /\ g.mapObjects = h.mapObjects
    /\ g.mapPostponedObjects = h.mapPostponedObjects
    /\ g.mapErasedGovernanceObjects = h.mapErasedGovernanceObjects

\* A GOVOBJ for a hash already seen leaves the three maps alone and returns
\* no misbehaviour score.
SeenObjectDropped(govobj, fee) ==
    govobj.hash \in SeenHashes(gov) =>
        /\ SameMembership(ProcessMessageObject(gov, govobj, fee, now, mn_sync, tip_mn_list), gov)
        /\ ProcessMessageObjectResult(gov, govobj, fee, now, mn_sync).m_error = 0

\* C37: no object hash is in more than one of mapObjects,
\* mapPostponedObjects and mapErasedGovernanceObjects, and a GOVOBJ message
\* whose hash is in one of them changes none of the three and earns the peer
\* no penalty.
C37_MembershipExclusive ==
    /\ ExclusiveMembership(gov)
    /\ \A govobj \in ObjectUniverse, fee \in ChainAnswers : SeenObjectDropped(govobj, fee)

\* A requested object arrives whose hash is among the erased ones while
\* another hash is stored: the handler gets as far as the test of the maps.
C37_Witness ==
    /\ mn_sync # "initial"
    /\ \E govobj \in ObjectUniverse :
          /\ govobj.hash \in DOMAIN gov.m_requested_hash_time
          /\ govobj.hash \in DOMAIN gov.mapErasedGovernanceObjects
          /\ DOMAIN gov.mapObjects # {}


(***************************************************************************)
(* The transfer records of a point as a history of its owners.             *)
(***************************************************************************)

\* The keys of the stored transfer records of the origin.
TransfersOf(d, origin) == {k \in DOMAIN d.t : k.origin = origin}

\* The sequence of transfer keys is a history of the point: it starts from the
\* owner the point was created with, every record leaves the owner the record
\* before it gave the point, and no record is older than the one before it.
IsOwnerChain(d, origin, s) ==
    /\ Len(s) > 0 => d.t[s[1]].previous_owner = d.p[origin].origin_owner
    /\ \A i \in 1..(Len(s) - 1) :
          /\ d.t[s[i + 1]].previous_owner = d.t[s[i]].new_owner
          /\ d.t[s[i]].height <= d.t[s[i + 1]].height

\* The stored transfer records of the origin can be put in an order in which
\* they are a history of the point.
HasOwnerChain(d, origin) ==
    \E s \in InjSeqs(TransfersOf(d, origin), Cardinality(TransfersOf(d, origin))) :
        /\ Len(s) = Cardinality(TransfersOf(d, origin))
        /\ IsOwnerChain(d, origin, s)

\* C38: for every stored point the stored transfer records form a chain: the
\* first leaves the owner the point was created with, every other one leaves
\* the owner the record before it gave the point, so that no two records leave
\* the same state of ownership.
C38_TransferHistoryIsChain == \A origin \in DOMAIN db.p : HasOwnerChain(db, origin)

\* Two stored transfer records of one point, written by one block, leave the
\* same owner.
TwoTransfersOutOfOneOwner ==
    \E k, j \in DOMAIN db.t :
        /\ k # j
        /\ k.origin = j.origin
        /\ db.t[k].height = db.t[j].height
        /\ db.t[k].previous_owner = db.t[j].previous_owner


\* MapPointIndex::DB::ReadOwners: for each owner the cursor walks the owner
\* entries of that owner; an entry yields the point record of its txid when
\* the record exists and its height is within the bounds.
ReadOwners(d, owners, start, stop) ==
    {MakeInfo(k.txid, d.p[k.txid]) :
        k \in {e \in d.o : /\ e.owner \in owners
                           /\ e.txid \in DOMAIN d.p
                           /\ start <= d.p[e.txid].height
                           /\ d.p[e.txid].height <= stop}}

\* MapPointIndex::GetPointsForOwners
GetPointsForOwners(d, owners, from_height, to_height) ==
    IF owners = {} THEN {}
    ELSE ReadOwners(d, owners, IF from_height < 0 THEN 0 ELSE from_height,
                    IF to_height < 0 THEN IntMax ELSE to_height)

\* The owners a query can name.
QueryOwners == SUBSET {"A", "B", "C"}

\* The owner entry refers to a stored point that the owner holds.
EntryIsCurrent(d, e) == e.txid \in DOMAIN d.p /\ d.p[e.txid].current_owner = e.owner

\* C39: while no call has failed, every entry of the owner index refers to a
\* stored point whose current owner is the owner of the entry, no point is
\* listed under two owners, and a query by owners returns only points whose
\* current owner is among the owners asked for.
C39_OwnerIndexNotStale ==
    ~halted =>
        /\ \A e \in db.o : EntryIsCurrent(db, e)
        /\ \A e, f \in db.o : e.txid = f.txid => e.owner = f.owner
        /\ \A owners \in QueryOwners, from \in QueryHeights, to \in QueryHeights :
              \A info \in GetPointsForOwners(db, owners, from, to) :
                  /\ info.current_owner \in owners
                  /\ info.origin_txid \in DOMAIN db.p
                  /\ db.p[info.origin_txid].current_owner = info.current_owner


\* ---------------------------------------------------------------------------
\* RequestGovernanceObjectVotes, one iteration of its loop at a time
\* ---------------------------------------------------------------------------

\* The objects of mapObjects: two triggers and two proposals.
VoteObjects ==
    (1 :> [type |-> "TRIGGER", fCachedDelete |-> FALSE])
        @@ (2 :> [type |-> "PROPOSAL", fCachedDelete |-> FALSE])
        @@ (3 :> [type |-> "TRIGGER", fCachedDelete |-> FALSE])
        @@ (4 :> [type |-> "PROPOSAL", fCachedDelete |-> FALSE])
\* vNodesCopy: no peer, one peer, three peers.
VoteNodeVectors == {<<>>, <<"a1">>, <<"a1", "a2", "a3">>}
\* The peers the loop passes over for a reason of their own: none, one, all.
VoteSkippedPeers == {{}, {"a1"}, PeerAddrs}
\* No call is running. The fields of a call: its arguments, the two vectors
\* of candidate hashes, the counter i of the loop, the value returned, and
\* the number of iterations so far that asked no peer.
NoVoteCall ==
    [pc |-> "idle", vNodesCopy |-> <<>>, skipped |-> {}, nNow |-> 0, nMaxObjRequestsPerNode |-> 0,
     vTriggerObjHashes |-> <<>>, vOtherObjHashes |-> <<>>, i |-> 0, ret |-> 0, nUnasked |-> 0]

\* The body of the for loop with a pop_back that is skipped when no peer was
\* asked.
AskIterationKeepsUnasked(c, map, nPeersPerHashMax) ==
    LET fromTriggers == c.vTriggerObjHashes # <<>>
        nHashGovobj == IF fromTriggers
                       THEN c.vTriggerObjHashes[Len(c.vTriggerObjHashes)]
                       ELSE c.vOtherObjHashes[Len(c.vOtherObjHashes)]
        r == AskNodes([map |-> map, sent |-> <<>>, fAsked |-> FALSE], nHashGovobj, c.vNodesCopy,
                      c.skipped, c.nNow, nPeersPerHashMax)
    IN  [map |-> r.map,
         call |-> [c EXCEPT
            !.vTriggerObjHashes = IF fromTriggers /\ r.fAsked THEN SubSeq(@, 1, Len(@) - 1) ELSE @,
            !.vOtherObjHashes = IF fromTriggers \/ ~r.fAsked THEN @ ELSE SubSeq(@, 1, Len(@) - 1),
            !.i = IF r.fAsked THEN @ + 1 ELSE @,
            !.nUnasked = IF r.fAsked THEN @ ELSE @ + 1]]

\* The body of the for loop, with the ++i that follows it: the hash at the
\* back of vTriggerObjHashes, or of vOtherObjHashes when there is no trigger,
\* is offered to the peers and popped; i-- and ++i leave i as it was when no
\* peer was asked.
AskIteration(c, map, nPeersPerHashMax) ==
    LET fromTriggers == c.vTriggerObjHashes # <<>>
        nHashGovobj == IF fromTriggers
                       THEN c.vTriggerObjHashes[Len(c.vTriggerObjHashes)]
                       ELSE c.vOtherObjHashes[Len(c.vOtherObjHashes)]
        r == AskNodes([map |-> map, sent |-> <<>>, fAsked |-> FALSE], nHashGovobj, c.vNodesCopy,
                      c.skipped, c.nNow, nPeersPerHashMax)
    IN  [map |-> r.map,
         call |-> [c EXCEPT
            !.vTriggerObjHashes = IF fromTriggers THEN SubSeq(@, 1, Len(@) - 1) ELSE @,
            !.vOtherObjHashes = IF fromTriggers THEN @ ELSE SubSeq(@, 1, Len(@) - 1),
            !.i = IF r.fAsked THEN @ + 1 ELSE @,
            !.nUnasked = IF r.fAsked THEN @ ELSE @ + 1]]

\* The loop goes on: i < nMaxObjRequestsPerNode and a candidate is left.
AskLoopGoesOn(c) ==
    /\ c.i < c.nMaxObjRequestsPerNode
    /\ c.vTriggerObjHashes # <<>> \/ c.vOtherObjHashes # <<>>

InitVotes ==
    /\ InitIndex
    /\ llabs_min_neg = TRUE
    /\ calc = NoCalc
    /\ gov = NewGovernanceManager
    /\ now = StartTime
    /\ mn_sync = "synced"
    /\ tip_mn_list = MasternodeOutpoints
    /\ HandlersIdle
    /\ rate = NoRate /\ sb = NoSuperblock /\ glast = NoMsg
    /\ relay = RelayIdle /\ locks = LocksIdle /\ props = NoProps
    /\ \E objects \in {EmptyFn, VoteObjects} :
          asked = [mapObjects |-> objects, mapAskedRecently |-> [h \in DOMAIN objects |-> <<>>],
                   call |-> NoVoteCall]

\* The call up to the for loop: the two early returns, the first pass over
\* mapObjects and the shuffles.
VotesCall ==
    /\ asked.call.pc # "loop"
    /\ \E vNodesCopy \in VoteNodeVectors, skipped \in VoteSkippedPeers,
          nMaxObjRequestsPerNode \in MaxObjRequests :
          \E vTriggerObjHashes \in Shuffles(AskCandidates(asked.mapAskedRecently, asked.mapObjects,
                                                          now, "TRIGGER", REALNET_PEERS_PER_HASH)),
             vOtherObjHashes \in Shuffles(AskCandidates(asked.mapAskedRecently, asked.mapObjects,
                                                        now, "OTHER", REALNET_PEERS_PER_HASH)) :
             asked' =
                IF vNodesCopy = <<>>
                THEN [asked EXCEPT !.call = [NoVoteCall EXCEPT !.pc = "done", !.ret = -1]]
                ELSE IF DOMAIN asked.mapObjects = {}
                THEN [asked EXCEPT !.call = [NoVoteCall EXCEPT !.pc = "done", !.ret = -2,
                                                               !.vNodesCopy = vNodesCopy]]
                ELSE [asked EXCEPT
                        !.mapAskedRecently = AskFirstPass(@, asked.mapObjects, now),
                        !.call = [pc |-> "loop", vNodesCopy |-> vNodesCopy, skipped |-> skipped,
                                  nNow |-> now, nMaxObjRequestsPerNode |-> nMaxObjRequestsPerNode,
                                  vTriggerObjHashes |-> vTriggerObjHashes,
                                  vOtherObjHashes |-> vOtherObjHashes, i |-> 0, ret |-> 0,
                                  nUnasked |-> 0]]
    /\ UNCHANGED <<relay, locks, props, govVars, nonPlaneVars>>

\* One iteration of the for loop.
VotesIterate ==
    /\ asked.call.pc = "loop"
    /\ AskLoopGoesOn(asked.call)
    /\ asked' = [asked EXCEPT
          !.mapAskedRecently = AskIteration(asked.call, asked.mapAskedRecently,
                                            REALNET_PEERS_PER_HASH).map,
          !.call = AskIteration(asked.call, asked.mapAskedRecently, REALNET_PEERS_PER_HASH).call]
    /\ UNCHANGED <<relay, locks, props, govVars, nonPlaneVars>>

\* The loop is left and the call returns the number of candidates not taken.
VotesReturn ==
    /\ asked.call.pc = "loop"
    /\ ~AskLoopGoesOn(asked.call)
    /\ asked' = [asked EXCEPT
          !.call.pc = "done",
          !.call.ret = Len(asked.call.vTriggerObjHashes) + Len(asked.call.vOtherObjHashes)]
    /\ UNCHANGED <<relay, locks, props, govVars, nonPlaneVars>>

NextVotes ==
    \/ VotesCall
    \/ VotesIterate
    \/ VotesReturn

SpecVotes == InitVotes /\ [][NextVotes]_vars

\* The thread that runs the call keeps running: an iteration that can be taken
\* is taken, and so is the return.
SpecVotesFair ==
    /\ SpecVotes
    /\ WF_vars(VotesIterate)
    /\ WF_vars(VotesReturn)

\* The candidates a call has not taken yet.
CandidatesLeft(c) == Len(c.vTriggerObjHashes) + Len(c.vOtherObjHashes)

\* A step inside the loop takes exactly one candidate, a trigger as long as
\* there is one, and counts against nMaxObjRequestsPerNode only when it asked
\* a peer.
IterationTakesOne ==
    (asked.call.pc = "loop" /\ asked'.call.pc = "loop") =>
        /\ CandidatesLeft(asked'.call) = CandidatesLeft(asked.call) - 1
        /\ asked.call.vTriggerObjHashes # <<>> =>
              asked'.call.vOtherObjHashes = asked.call.vOtherObjHashes
        /\ asked'.call.i = asked.call.i + 1 <=> asked'.mapAskedRecently # asked.mapAskedRecently
        /\ asked'.call.i = asked.call.i <=> asked'.call.nUnasked = asked.call.nUnasked + 1
        /\ asked'.call.i \in {asked.call.i, asked.call.i + 1}

\* A step that ends a call returns the number of candidates left, -1 for an
\* empty peer list and -2 for an empty mapObjects; the loop is left with a
\* candidate only when nMaxObjRequestsPerNode iterations asked a peer.
ReturnsCount ==
    asked'.call.pc = "done" /\ asked' # asked =>
        IF asked.call.pc = "loop"
        THEN /\ asked'.call.ret = CandidatesLeft(asked.call)
             /\ asked'.call.ret > 0 => asked.call.i = asked.call.nMaxObjRequestsPerNode
        ELSE \/ asked'.call.pc = asked.call.pc /\ asked'.call = asked.call
             \/ asked'.call.ret = -1 /\ asked'.call.vNodesCopy = <<>>
             \/ asked'.call.ret = -2 /\ asked'.call.vNodesCopy # <<>> /\ DOMAIN asked.mapObjects = {}

\* C40: a call of RequestGovernanceObjectVotes that has entered its loop
\* returns: every iteration takes one candidate hash, triggers before other
\* objects, also when no peer could be asked and the iteration does not count
\* against the budget of the node; the call returns the number of candidates
\* left, -1 for an empty peer list and -2 when mapObjects is empty.
C40_RequestVotesTerminates ==
    /\ [][IterationTakesOne /\ ReturnsCount]_vars
    /\ (asked.call.pc = "loop") ~> (asked.call.pc = "done")

\* A call returned 0 after four iterations none of which could ask a peer.
C40_Witness ==
    /\ asked.call.pc = "done"
    /\ asked.call.ret = 0
    /\ asked.call.nUnasked = 4
    /\ asked.call.i = 0

\* A call returned -2: there were peers and no object.
C40_WitnessNoObjects == asked.call.pc = "done" /\ asked.call.ret = -2

====
